---------------------------- MODULE Spec2Model ----------------------------
(***************************************************************************)
(* A model of the generate -> review -> improve pipeline of                *)
(* src/CodeGenerator.py: the backend wrapper (LiteLLMGroqWrapper.chat),    *)
(* the retrieval step (search_relevant_code), the prompt assembly with its *)
(* character budgets, the orchestration (run_crew) and the output          *)
(* validator (_format_final_result).                                       *)
(*                                                                         *)
(* Texts are TLA+ strings, handled character by character with Len, \o and *)
(* SubSeq, so that a substring test, a clip or a concatenation is computed *)
(* as the Python code computes it.                                         *)
(***************************************************************************)
EXTENDS Integers, Sequences, FiniteSets, TLC

VARIABLES
    \* ---- the CodeGenerator instance and the vector store it talks to
    model_ok,           \* self.model is a SentenceTransformer (FALSE: None)
    store,              \* the vector store: reachability, catalog, points
    \* ---- one run of CodeGenerator.run_crew
    pc,                 \* position of the run in run_crew
    requirement,        \* the argument code_requirements as the caller passed it
    query,              \* the query run_crew passed to search_relevant_code
    encoded,            \* search_relevant_code embedded the query
    contacted,          \* search_relevant_code built a client of the store
    exc,                \* where an exception was raised in the run, if any
    code_requirements,  \* the (clipped) requirement description
    related_examples,   \* payloads returned by search_relevant_code
    searched,           \* collection names a similarity search was issued against
    task1, task2, task3,\* the stage prompts (Task.description), by slot
    gen_result_str,     \* str(crew1.kickoff())
    review_result_str,  \* str(crew2.kickoff())
    final_result_str,   \* str(crew3.kickoff())
    stages,             \* the stages whose crew was kicked off, in order
    ret,                \* value returned by run_crew
    \* ---- one call of LiteLLMGroqWrapper.chat
    chat_pc,            \* "call" before the call, "returned" after it
    chat_backend,       \* outcomes of the successive completion() requests
    chat_ret,           \* value returned by chat
    chat_calls,         \* number of completion() requests chat issued
    \* ---- applications of _format_final_result
    fmt_sections,       \* indices of the required headers the input was built with
    fmt_layout,         \* how the input lays the headers out
    fmt_hist,           \* <<input, validate(input), validate(validate(input)), ..>>
    \* ---- the prompt functions applied to given texts
    pr_examples,        \* the argument related_examples of _code_gen_task_fn
    pr_code,            \* a GENERATE output: code_output / original_code
    pr_notes,           \* a REVIEW output: review_notes
    pr_task1,           \* _code_gen_task_fn(.., pr_examples)
    pr_task2,           \* _review_task_fn(pr_code)
    pr_task3,           \* _improvement_task_fn(pr_notes, pr_code)
    \* ---- one retrieval call of one of the three generators
    rs_store,           \* the vector store, its matches carrying scores
    rs_names,           \* the configured collection names, in order
    rs_top_k,           \* the argument top_k / n_results
    rs_op,              \* the retrieval operation called, "none" before
    rs_out,             \* what the call did: ret, raised, searched, results
    \* ---- one call of a function of its arguments alone
    fn_name,            \* the function called, "none" before
    fn_in,              \* its argument
    fn_out,             \* what it returned
    \* ---- two run_crew calls in flight on one CodeGenerator
    cc_frames,          \* per call, the locals of its run_crew frame
    \* ---- two /generate-test-cases requests in flight
    tc_req,             \* per request, the locals of its handler and generator frames
    tc_file             \* the files of the temporary directory, by path

vars == <<model_ok, store, pc, requirement, query, encoded, contacted, exc, code_requirements, related_examples, searched, task1, task2, task3,
          gen_result_str, review_result_str, final_result_str, stages, ret,
          chat_pc, chat_backend, chat_ret, chat_calls,
          fmt_sections, fmt_layout, fmt_hist,
          pr_examples, pr_code, pr_notes, pr_task1, pr_task2, pr_task3,
          rs_store, rs_names, rs_top_k, rs_op, rs_out,
          fn_name, fn_in, fn_out, cc_frames, tc_req, tc_file>>

runVars  == <<model_ok, store, pc, requirement, query, encoded, contacted, exc, code_requirements, related_examples, searched, task1, task2, task3,
              gen_result_str, review_result_str, final_result_str, stages, ret>>
chatVars == <<chat_pc, chat_backend, chat_ret, chat_calls>>
fmtVars  == <<fmt_sections, fmt_layout, fmt_hist>>
promptVars == <<pr_examples, pr_code, pr_notes, pr_task1, pr_task2, pr_task3>>
searchVars == <<rs_store, rs_names, rs_top_k, rs_op, rs_out>>
fnVars == <<fn_name, fn_in, fn_out>>
tcVars == <<tc_req, tc_file>>
auxVars == <<fnVars, cc_frames, tcVars>>

-----------------------------------------------------------------------------
(* Bounds of the model *)

\* how many times the validator is applied in a row to one text
MaxApply == 2

\* how many successive completion() requests the backend script describes
MaxRequests == 2

\* how far around each character budget the lengths of the texts handed to
\* the prompt functions range
Slack == 1

\* the largest top_k / n_results a retrieval call is given
MaxTopK == 2

\* the largest count of records asked of generate_test_data
MaxCount == 12

\* the largest number of scenarios parsed from one backend answer
MaxScenarios == 2

-----------------------------------------------------------------------------
(* Character budgets of the prompts *)

REQUIREMENT_LIMIT   == 200
EXAMPLE_LIMIT       == 1000
REVIEW_INPUT_LIMIT  == 1000
REVIEW_NOTES_LIMIT  == 100
ORIGINAL_CODE_LIMIT == 2000

-----------------------------------------------------------------------------
(* Text helpers: Python's str operations *)

\* a variant of Clip that also cuts a text of exactly n characters
Clip_at_limit(s, n) == IF Len(s) >= n THEN SubSeq(s, 1, n) \o "..." ELSE s

\* `if len(s) > n: s = s[:n] + "..."`
Clip(s, n) == IF Len(s) > n THEN SubSeq(s, 1, n) \o "..." ELSE s

\* a variant of In that accepts h only at the start of a line of s
In_linestart(h, s) ==
    \E i \in 1..(Len(s) - Len(h) + 1) :
        /\ SubSeq(s, i, i + Len(h) - 1) = h
        /\ (i = 1 \/ SubSeq(s, i - 1, i - 1) = "\n")

\* Python `h in s` for strings: h occurs in s as a substring
In(h, s) ==
    \E i \in 1..(Len(s) - Len(h) + 1) : SubSeq(s, i, i + Len(h) - 1) = h

\* Python s.endswith(t)
EndsWith(s, t) ==
    /\ Len(t) <= Len(s)
    /\ SubSeq(s, Len(s) - Len(t) + 1, Len(s)) = t

\* Python s.startswith(t)
StartsWith(s, t) ==
    /\ Len(t) <= Len(s)
    /\ SubSeq(s, 1, Len(t)) = t

\* Python sep.join(parts)
RECURSIVE Join(_, _)
Join(parts, sep) ==
    IF parts = <<>> THEN ""
    ELSE IF Len(parts) = 1 THEN parts[1]
    ELSE parts[1] \o sep \o Join(Tail(parts), sep)

-----------------------------------------------------------------------------
(* _format_final_result: the output validator *)

required_sections ==
    << "Intent of the Change:",
       "Affected Code or Packages:",
       "Insertion Points:",
       "New Code:",
       "Invocation of new programming unit in existing source:",
       "Explanation:",
       "Required Import:" >>

\* a variant of missing whose loop stops at the first missing section
missing_break(result_str) ==
    SubSeq(SelectSeq(required_sections, LAMBDA section : ~In(section, result_str)), 1, 1)

\* the list `missing` built by the loop over required_sections
missing(result_str) ==
    SelectSeq(required_sections, LAMBDA section : ~In(section, result_str))

\* a variant of _format_final_result that tests `missing is not None`
_format_final_result_isnotnone(result) ==
    LET result_str == result
    IN  "/* Error: The following sections are missing from the generated result: "
        \o Join(missing(result_str), ", ")
        \o ". Please retry. */\n\n" \o result_str

\* a variant of _format_final_result whose banner names the missing
\* headers without their final colon
_format_final_result_names_only(result) ==
    LET result_str == result
        names == [i \in 1..Len(missing(result_str)) |->
                     SubSeq(missing(result_str)[i], 1, Len(missing(result_str)[i]) - 1)]
    IN  IF missing(result_str) # <<>>
        THEN "/* Error: The following sections are missing from the generated result: "
             \o Join(names, ", ")
             \o ". Please retry. */\n\n" \o result_str
        ELSE result_str

_format_final_result(result) ==
    LET result_str == result
    IN  IF missing(result_str) # <<>>
        THEN "/* Error: The following sections are missing from the generated result: "
             \o Join(missing(result_str), ", ")
             \o ". Please retry. */\n\n" \o result_str
        ELSE result_str


-----------------------------------------------------------------------------
(* LiteLLMGroqWrapper.chat: one backend completion, with its error mapping *)

RateLimitMsg ==
    "The request exceeded the rate limit. Please try with a simpler query or try again later."

GenericMsg ==
    "Sorry, there was an error generating the code. Please try again with more detailed requirements."

(* An outcome of one completion() request:                                 *)
(*   [kind |-> "ok", content |-> t]  a response whose first choice holds t *)
(*   [kind |-> "rate_limit"]         litellm.RateLimitError is raised      *)
(*   [kind |-> "error"]              another Exception is raised           *)
(*   [kind |-> "malformed"]          a response with no choice to index    *)
(*                                   (line 42 raises IndexError/KeyError)  *)
(* backend[i] is the outcome of the i-th request issued.                   *)

\* a variant of chat whose RateLimitError handler issues the request again
chat_retry(backend) ==
    LET first == backend[1]
        again == backend[2]
        map(r) == CASE r.kind = "ok"         -> r.content
                    [] r.kind = "rate_limit" -> RateLimitMsg
                    [] OTHER                 -> GenericMsg
    IN  IF first.kind = "rate_limit"
        THEN [ret |-> map(again), raised |-> FALSE, calls |-> 2]
        ELSE [ret |-> map(first), raised |-> FALSE, calls |-> 1]

\* a variant of chat with no `except Exception` clause
chat_no_generic_handler(backend) ==
    LET response == backend[1]
    IN  CASE response.kind = "ok" ->
               [ret |-> response.content, raised |-> FALSE, calls |-> 1]
          [] response.kind = "rate_limit" ->
               [ret |-> RateLimitMsg, raised |-> FALSE, calls |-> 1]
          [] OTHER ->
               [ret |-> "<exception>", raised |-> TRUE, calls |-> 1]

\* ret: the value returned; raised: an exception left chat; calls: the
\* number of completion() requests issued
chat(backend) ==
    LET response == backend[1]
    IN  CASE response.kind = "ok" ->
               [ret |-> response.content, raised |-> FALSE, calls |-> 1]
          [] response.kind = "rate_limit" ->
               [ret |-> RateLimitMsg, raised |-> FALSE, calls |-> 1]
          [] OTHER ->
               [ret |-> GenericMsg, raised |-> FALSE, calls |-> 1]

-----------------------------------------------------------------------------
(* Texts handed to the validator: built from a set of required headers and *)
(* a layout, so that the headers a text holds are known by construction    *)

Layouts == {"ordered", "reversed", "inline", "twice", "nearmiss"}

RECURSIVE Cat(_, _, _)
Cat(parts, pre, post) ==
    IF parts = <<>> THEN ""
    ELSE pre \o Head(parts) \o post \o Cat(Tail(parts), pre, post)

Reverse(s) == [i \in 1..Len(s) |-> s[Len(s) + 1 - i]]

\* the required headers with index in S, in the order of required_sections
Pick(S) ==
    SelectSeq(required_sections,
              LAMBDA h : \E i \in S : required_sections[i] = h)

\* a header with its final colon removed: close to a header, but not one
NoColon(h) == SubSeq(h, 1, Len(h) - 1)

NoColons(hs) == [i \in 1..Len(hs) |-> NoColon(hs[i])]

BuildText(S, layout) ==
    CASE layout = "ordered"  -> Cat(Pick(S), "", "\n[answer]\n\n")
      [] layout = "reversed" -> Cat(Reverse(Pick(S)), "", "\n[answer]\n\n")
      [] layout = "inline"   -> "Summary" \o Cat(Pick(S), " then ", " x")
      [] layout = "twice"    -> Cat(Pick(S) \o Pick(S), "", "\n[answer]\n\n")
      [] layout = "nearmiss" -> Cat(Pick(S), "", "\n[answer]\n\n")
                                \o Cat(NoColons(Pick((1..7) \ S)), "", "\n[answer]\n\n")

-----------------------------------------------------------------------------
(* Retrieval: search_relevant_code and _extract_content_from_payload *)

\* self.collections, by default
collections == << "Sql_Database", "DDL_Database", "sql-embeddings_main2" >>

(* A payload is a dict, [isdict |-> TRUE, items |-> <<item, ..>>], or       *)
(* another object, [isdict |-> FALSE, str |-> its str()].  An item is       *)
(* [k |-> key, v |-> str(value), isstr |-> the value is a str,              *)
(*  truthy |-> bool(value)].                                                *)
ValueDict(items) == [isdict |-> TRUE, items |-> items]

\* a dict of string values, given as <<[k |-> key, v |-> value], ..>>
Dict(items) ==
    ValueDict([i \in 1..Len(items) |->
                  [k |-> items[i].k, v |-> items[i].v,
                   isstr |-> TRUE, truthy |-> items[i].v # ""]])
NonePayload == [isdict |-> FALSE, str |-> "None"]

HasKey(payload, key) == \E i \in 1..Len(payload.items) : payload.items[i].k = key

Item(payload, key) ==
    payload.items[CHOOSE i \in 1..Len(payload.items) : payload.items[i].k = key]

\* str(payload[key])
Get(payload, key) == Item(payload, key).v

\* `if payload[key]`
Truthy(payload, key) == Item(payload, key).truthy

\* str() of a payload: Python's repr of a dict (a str value in quotes, any
\* other value as it prints), or the object's str()
PyStr(payload) ==
    IF payload.isdict
    THEN "{" \o Join([i \in 1..Len(payload.items) |->
                        "'" \o payload.items[i].k \o "': "
                        \o (IF payload.items[i].isstr
                            THEN "'" \o payload.items[i].v \o "'"
                            ELSE payload.items[i].v)],
                     ", ") \o "}"
    ELSE payload.str

\* a variant of _extract_content_from_payload that looks at 'text' first
_extract_content_from_payload_text_first(payload) ==
    IF payload.isdict
    THEN IF HasKey(payload, "text") /\ Truthy(payload, "text")
         THEN Get(payload, "text")
         ELSE IF HasKey(payload, "content") /\ Truthy(payload, "content")
         THEN Get(payload, "content")
         ELSE PyStr(payload)
    ELSE PyStr(payload)

_extract_content_from_payload(payload) ==
    IF payload.isdict
    THEN IF HasKey(payload, "content") /\ Truthy(payload, "content")
         THEN Get(payload, "content")
         ELSE IF HasKey(payload, "text") /\ Truthy(payload, "text")
         THEN Get(payload, "text")
         ELSE PyStr(payload)
    ELSE PyStr(payload)

(* The vector store: up (the client can be built and the catalog read),   *)
(* catalog (the names of the collections that exist), failing (the        *)
(* collections whose similarity search raises) and points (per collection, *)
(* the payloads of its matches, best first).                              *)
Take(s, n) == SubSeq(s, 1, IF Len(s) < n THEN Len(s) ELSE n)

\* client.search(collection_name, query_vector, limit) on a store
StoreSearch(st, name, limit) ==
    IF name \in st.failing \/ name \notin st.catalog
    THEN [raised |-> TRUE, hits |-> <<>>]
    ELSE [raised |-> FALSE, hits |-> Take(st.points[name], limit)]

\* a variant of search_relevant_code that searches every valid collection
\* and gathers the payloads of all
search_relevant_code_all_valid(model, st, q, n_results) ==
    IF ~model
    THEN [ret |-> <<>>, raised |-> FALSE, searched |-> <<>>,
          contacted |-> FALSE, encoded |-> FALSE]
    ELSE IF ~st.up
    THEN [ret |-> <<>>, raised |-> FALSE, searched |-> <<>>,
          contacted |-> TRUE, encoded |-> FALSE]
    ELSE LET valid_collections ==
                 SelectSeq(collections, LAMBDA col : col \in st.catalog)
             hits_of(i) == LET r == StoreSearch(st, valid_collections[i], n_results)
                           IN  IF r.raised THEN <<>> ELSE r.hits
             gather[i \in 0..Len(valid_collections)] ==
                 IF i = 0 THEN <<>> ELSE gather[i - 1] \o hits_of(i)
         IN  [ret |-> gather[Len(valid_collections)],
              raised |-> FALSE,
              searched |-> valid_collections,
              contacted |-> TRUE,
              encoded |-> TRUE]

\* a variant of search_relevant_code that, finding none of its collections
\* in the catalog, searches the first configured one all the same
search_relevant_code_first_configured(model, st, q, n_results) ==
    IF ~model
    THEN [ret |-> <<>>, raised |-> FALSE, searched |-> <<>>,
          contacted |-> FALSE, encoded |-> FALSE]
    ELSE IF ~st.up
    THEN [ret |-> <<>>, raised |-> FALSE, searched |-> <<>>,
          contacted |-> TRUE, encoded |-> FALSE]
    ELSE LET valid_collections ==
                 SelectSeq(collections, LAMBDA col : col \in st.catalog)
             first == IF valid_collections = <<>> THEN collections[1]
                      ELSE valid_collections[1]
             search_results == StoreSearch(st, first, n_results)
         IN  [ret |-> IF search_results.raised THEN <<>> ELSE search_results.hits,
              raised |-> FALSE,
              searched |-> << first >>,
              contacted |-> TRUE,
              encoded |-> TRUE]

\* a variant of search_relevant_code without the test of self.model: the
\* failure to encode with no model is met inside the try, after the client
\* of the store was built
search_relevant_code_no_model_test(model, st, q, n_results) ==
    IF ~st.up \/ ~model
    THEN [ret |-> <<>>, raised |-> FALSE, searched |-> <<>>,
          contacted |-> TRUE, encoded |-> FALSE]
    ELSE LET valid_collections ==
                 SelectSeq(collections, LAMBDA col : col \in st.catalog)
         IN  IF valid_collections = <<>>
             THEN [ret |-> <<>>, raised |-> FALSE, searched |-> <<>>,
                   contacted |-> TRUE, encoded |-> TRUE]
             ELSE LET search_results == StoreSearch(st, valid_collections[1], n_results)
                  IN  [ret |-> IF search_results.raised THEN <<>>
                               ELSE search_results.hits,
                       raised |-> FALSE,
                       searched |-> << valid_collections[1] >>,
                       contacted |-> TRUE,
                       encoded |-> TRUE]

\* ret: the payloads returned; raised: an exception left the call;
\* searched: the collections a similarity search was issued against;
\* contacted: a client of the store was built; encoded: the query was
\* embedded
search_relevant_code(model, st, q, n_results) ==
    IF ~model
    THEN [ret |-> <<>>, raised |-> FALSE, searched |-> <<>>,
          contacted |-> FALSE, encoded |-> FALSE]
    ELSE IF ~st.up
    THEN [ret |-> <<>>, raised |-> FALSE, searched |-> <<>>,
          contacted |-> TRUE, encoded |-> FALSE]
    ELSE LET valid_collections ==
                 SelectSeq(collections, LAMBDA col : col \in st.catalog)
         IN  IF valid_collections = <<>>
             THEN [ret |-> <<>>, raised |-> FALSE, searched |-> <<>>,
                   contacted |-> TRUE, encoded |-> TRUE]
             ELSE LET search_results == StoreSearch(st, valid_collections[1], n_results)
                      all_results == IF search_results.raised THEN <<>>
                                     ELSE search_results.hits
                  IN  [ret |-> all_results,
                       raised |-> FALSE,
                       searched |-> << valid_collections[1] >>,
                       contacted |-> TRUE,
                       encoded |-> TRUE]

(* FlexcubeTestCaseGenerator.semantic_search and                          *)
(* FunctionDocumentGenerator.search_vector_db work on the matches          *)
(* themselves: a match is [id, score, payload].                            *)

\* the store as search_relevant_code sees it: `result.payload` of each match
PayloadView(st) ==
    [st EXCEPT !.points =
        [n \in DOMAIN st.points |->
            [i \in 1..Len(st.points[n]) |-> st.points[n][i].payload]]]

\* result.payload.get('text', '') on a dict payload
get_text(payload) ==
    IF HasKey(payload, "text") THEN Get(payload, "text") ELSE ""

\* list.sort(key=lambda x: x.score, reverse=True) places a match behind the
\* matches of greater or equal score that came before it
RECURSIVE insert_by_score(_, _)
insert_by_score(sorted, x) ==
    IF sorted = <<>> THEN << x >>
    ELSE IF Head(sorted).score >= x.score
         THEN << Head(sorted) >> \o insert_by_score(Tail(sorted), x)
         ELSE << x >> \o sorted

RECURSIVE sort_all(_)
sort_all(results) ==
    IF results = <<>> THEN <<>>
    ELSE insert_by_score(sort_all(SubSeq(results, 1, Len(results) - 1)),
                         results[Len(results)])

\* a variant of the sort that turns the order of matches of equal score
sort_by_score_reverse_ties_turned(all_results) ==
    sort_all(Reverse(all_results))

\* FlexcubeTestCaseGenerator.py line 98
sort_by_score_reverse(all_results) == sort_all(all_results)

\* FlexcubeTestCaseGenerator.py lines 88-95: the loop over collection_names;
\* nothing catches an exception of client.search
RECURSIVE semantic_search_loop(_, _, _, _, _)
semantic_search_loop(st, names, top_k, all_results, searched_names) ==
    IF names = <<>>
    THEN [raised |-> FALSE, all_results |-> all_results, searched |-> searched_names]
    ELSE LET search_results == StoreSearch(st, Head(names), top_k)
         IN  IF search_results.raised
             THEN [raised |-> TRUE, all_results |-> all_results,
                   searched |-> Append(searched_names, Head(names))]
             ELSE semantic_search_loop(st, Tail(names), top_k,
                                       all_results \o search_results.hits,
                                       Append(searched_names, Head(names)))

\* a variant of semantic_search that returns the first top_k matches of the
\* concatenation as they come
semantic_search_unsorted(st, names, top_k) ==
    LET loop == semantic_search_loop(st, names, top_k, <<>>, <<>>)
        top_results == Take(loop.all_results, top_k)
    IN  IF loop.raised
        THEN [ret |-> <<>>, raised |-> TRUE, searched |-> loop.searched,
              results |-> <<>>]
        ELSE IF \E i \in 1..Len(top_results) : ~top_results[i].payload.isdict
        THEN [ret |-> <<>>, raised |-> TRUE, searched |-> loop.searched,
              results |-> top_results]
        ELSE [ret |-> [i \in 1..Len(top_results) |-> get_text(top_results[i].payload)],
              raised |-> FALSE, searched |-> loop.searched,
              results |-> top_results]

\* ret: the texts returned; raised: an exception left the call (of
\* client.search, or of .get on a payload that is None); searched: the
\* collections a similarity search was issued against; results: top_results
semantic_search(st, names, top_k) ==
    LET loop == semantic_search_loop(st, names, top_k, <<>>, <<>>)
        top_results == Take(sort_by_score_reverse(loop.all_results), top_k)
    IN  IF loop.raised
        THEN [ret |-> <<>>, raised |-> TRUE, searched |-> loop.searched,
              results |-> <<>>]
        ELSE IF \E i \in 1..Len(top_results) : ~top_results[i].payload.isdict
        THEN [ret |-> <<>>, raised |-> TRUE, searched |-> loop.searched,
              results |-> top_results]
        ELSE [ret |-> [i \in 1..Len(top_results) |-> get_text(top_results[i].payload)],
              raised |-> FALSE, searched |-> loop.searched,
              results |-> top_results]

\* FunctionDocumentGenerator.py lines 64-74: the loop over collection_names,
\* each search in a try of its own
RECURSIVE search_vector_db_loop(_, _, _, _)
search_vector_db_loop(st, names, top_k, results) ==
    IF names = <<>> THEN results
    ELSE LET search_result == StoreSearch(st, Head(names), top_k)
         IN  search_vector_db_loop(st, Tail(names), top_k,
                                   IF search_result.raised THEN results
                                   ELSE results \o search_result.hits)

\* ret: the matches returned, as the loop gathered them
search_vector_db(st, names, top_k) ==
    LET results == search_vector_db_loop(st, names, top_k, <<>>)
    IN  [ret |-> results, raised |-> FALSE, searched |-> names,
         results |-> results]

-----------------------------------------------------------------------------
(* The values the variables of a part of the model hold while another     *)
(* part runs                                                               *)

Unbound == "<unbound>"      \* a Python local not assigned yet
NoTask  == [stage |-> "none"]

NoExc   == [site |-> "none", stage |-> "none"]
NoStore == [up |-> FALSE, catalog |-> {}, failing |-> {}, points |-> <<>>]

RunIdle ==
    /\ model_ok = TRUE
    /\ store = NoStore
    /\ pc = "idle"
    /\ requirement = Unbound
    /\ query = Unbound
    /\ encoded = FALSE
    /\ contacted = FALSE
    /\ exc = NoExc
    /\ code_requirements = Unbound
    /\ related_examples = <<>>
    /\ searched = <<>>
    /\ task1 = NoTask /\ task2 = NoTask /\ task3 = NoTask
    /\ gen_result_str = Unbound
    /\ review_result_str = Unbound
    /\ final_result_str = Unbound
    /\ stages = <<>>
    /\ ret = Unbound

ChatIdle ==
    /\ chat_pc = "idle"
    /\ chat_backend = <<>>
    /\ chat_ret = Unbound
    /\ chat_calls = 0

FmtIdle ==
    /\ fmt_sections = {}
    /\ fmt_layout = "none"
    /\ fmt_hist = <<>>

NoOut == [ret |-> <<>>, raised |-> FALSE, searched |-> <<>>, results |-> <<>>]

SearchIdle ==
    /\ rs_store = NoStore
    /\ rs_names = <<>>
    /\ rs_top_k = 0
    /\ rs_op = "none"
    /\ rs_out = NoOut

FnIdle ==
    /\ fn_name = "none"
    /\ fn_in = <<>>
    /\ fn_out = <<>>

CcIdle == cc_frames = <<>>

TcIdle ==
    /\ tc_req = <<>>
    /\ tc_file = <<>>

AuxIdle == FnIdle /\ CcIdle /\ TcIdle

PromptIdle ==
    /\ pr_examples = <<>>
    /\ pr_code = Unbound
    /\ pr_notes = Unbound
    /\ pr_task1 = NoTask /\ pr_task2 = NoTask /\ pr_task3 = NoTask

-----------------------------------------------------------------------------
(* Specification SpecFormat: _format_final_result applied to a text, and   *)
(* applied again to its own result                                         *)

FmtInit ==
    /\ fmt_sections \in SUBSET (1..7)
    /\ fmt_layout \in Layouts
    /\ fmt_hist = << BuildText(fmt_sections, fmt_layout) >>
    /\ RunIdle
    /\ ChatIdle
    /\ PromptIdle
    /\ SearchIdle
    /\ AuxIdle

FmtApply ==
    /\ Len(fmt_hist) >= 1
    /\ Len(fmt_hist) <= MaxApply
    /\ fmt_hist' = Append(fmt_hist, _format_final_result(fmt_hist[Len(fmt_hist)]))
    /\ UNCHANGED <<fmt_sections, fmt_layout>>
    /\ UNCHANGED runVars
    /\ UNCHANGED chatVars
    /\ UNCHANGED promptVars
    /\ UNCHANGED searchVars
    /\ UNCHANGED auxVars

FmtNext == FmtApply

SpecFormat == FmtInit /\ [][FmtNext]_vars

-----------------------------------------------------------------------------
(* Texts the backend may answer with *)

RECURSIVE Rep(_, _)
Rep(s, n) ==
    IF n <= 0 THEN ""
    ELSE IF n % 2 = 0 THEN LET h == Rep(s, n \div 2) IN h \o h
    ELSE s \o Rep(s, n - 1)

\* t followed by filler up to a length of n characters
PadTo(t, n) == t \o Rep("x", n - Len(t))

AllSections == 1..Len(required_sections)

BackendTexts ==
    { BuildText(AllSections, "ordered"),
      BuildText(AllSections, "reversed"),
      BuildText(AllSections \ {7}, "ordered"),
      BuildText({4}, "inline"),
      "",
      RateLimitMsg,
      PadTo(BuildText(AllSections, "ordered"), 2001) }

BackendOutcomes ==
    { [kind |-> "ok", content |-> t] : t \in BackendTexts }
    \cup { [kind |-> "rate_limit"], [kind |-> "error"], [kind |-> "malformed"] }

-----------------------------------------------------------------------------
(* Prompt assembly.  A prompt is a fixed template around the texts it     *)
(* embeds; it is modelled by its stage and the embedded texts.            *)

\* a variant of _code_gen_task_fn that opens the example section whether or
\* not there is an example
_code_gen_task_fn_always_section(requirements, examples) ==
    LET content == _extract_content_from_payload(examples[1])
        examples_text ==
            "Here's a related code example:\n\n"
            \o (IF examples # <<>>
                THEN Clip(content, EXAMPLE_LIMIT) \o "\n\n"
                ELSE "")
    IN  [stage |-> "GENERATE",
         description |-> requirements.description,
         examples_text |-> examples_text]

_code_gen_task_fn(requirements, examples) ==
    LET content == _extract_content_from_payload(examples[1])
        examples_text ==
            IF examples # <<>>
            THEN "Here's a related code example:\n\n"
                 \o Clip(content, EXAMPLE_LIMIT) \o "\n\n"
            ELSE ""
    IN  [stage |-> "GENERATE",
         description |-> requirements.description,
         examples_text |-> examples_text]

\* a variant of _review_task_fn that embeds the code output whole
_review_task_fn_unclipped(code_output) ==
    [stage |-> "REVIEW", code_output |-> code_output]

_review_task_fn(code_output) ==
    [stage |-> "REVIEW",
     code_output |-> Clip(code_output, REVIEW_INPUT_LIMIT)]

\* a variant of _improvement_task_fn that leaves out review notes that are
\* the rate-limit message
_improvement_task_fn_skip_sentinel(review_notes, original_code) ==
    [stage |-> "IMPROVE",
     review_notes |-> IF review_notes = RateLimitMsg THEN ""
                      ELSE Clip(review_notes, REVIEW_NOTES_LIMIT),
     original_code |-> Clip(original_code, ORIGINAL_CODE_LIMIT)]

_improvement_task_fn(review_notes, original_code) ==
    [stage |-> "IMPROVE",
     review_notes |-> Clip(review_notes, REVIEW_NOTES_LIMIT),
     original_code |-> Clip(original_code, ORIGINAL_CODE_LIMIT)]

-----------------------------------------------------------------------------
(* run_crew: the orchestration *)

RunCrewErrorMsg ==
    "/* Error generating code: The system encountered an issue processing your request. Please try with more detailed requirements or contact support. */"

StageOrder == << "GENERATE", "REVIEW", "IMPROVE" >>

\* the requirement texts a caller passes (app.generate_code rejects "")
Requirements ==
    { "add a function to calculate interest",
      PadTo("add a procedure ", REQUIREMENT_LIMIT),
      PadTo("add a procedure ", REQUIREMENT_LIMIT + 1),
      PadTo("add a procedure ", 5000) }

\* payloads of stored points
Payloads ==
    [ content |-> Dict(<< [k |-> "content", v |-> "CREATE FUNCTION f RETURN NUMBER"],
                          [k |-> "text", v |-> "f" ] >>),
      text    |-> Dict(<< [k |-> "content", v |-> ""],
                          [k |-> "text", v |-> "SELECT 1 FROM dual"] >>),
      meta    |-> Dict(<< [k |-> "source", v |-> "pkg.sql"] >>),
      long    |-> Dict(<< [k |-> "content", v |-> Rep("y", EXAMPLE_LIMIT + 1)] >>),
      none    |-> NonePayload ]

\* the stores a run may meet
Stores ==
    { NoStore,
      [up |-> TRUE, catalog |-> {}, failing |-> {}, points |-> <<>>],
      [up |-> TRUE, catalog |-> {"unrelated"}, failing |-> {},
       points |-> [n \in {"unrelated"} |-> << Payloads.content >>]],
      [up |-> TRUE, catalog |-> {"Sql_Database", "DDL_Database"}, failing |-> {},
       points |-> [n \in {"Sql_Database", "DDL_Database"} |->
                     IF n = "Sql_Database" THEN <<>> ELSE << Payloads.content >>]],
      [up |-> TRUE, catalog |-> {"Sql_Database", "DDL_Database"},
       failing |-> {"Sql_Database"},
       points |-> [n \in {"Sql_Database", "DDL_Database"} |-> << Payloads.content >>]],
      [up |-> TRUE, catalog |-> {"DDL_Database", "sql-embeddings_main2"}, failing |-> {},
       points |-> [n \in {"DDL_Database", "sql-embeddings_main2"} |->
                     IF n = "DDL_Database" THEN << Payloads.text, Payloads.content >>
                     ELSE << Payloads.meta >>]],
      [up |-> TRUE, catalog |-> {"Sql_Database"}, failing |-> {},
       points |-> [n \in {"Sql_Database"} |-> << Payloads.long, Payloads.none >>]],
      [up |-> TRUE, catalog |-> {"sql-embeddings_main2", "unrelated"}, failing |-> {},
       points |-> [n \in {"sql-embeddings_main2", "unrelated"} |->
                     IF n = "unrelated" THEN << Payloads.content >> ELSE << Payloads.meta >>]],
      [up |-> TRUE, catalog |-> {"Sql_Database"}, failing |-> {},
       points |-> [n \in {"Sql_Database"} |-> << Payloads.none >>]] }

(* What building and running one stage can end in:                        *)
(*   task_raises     the stage's task function or Task(...) raises        *)
(*   crew_raises     Crew(...) raises                                     *)
(*   kickoff_raises  crew.kickoff() raises                                *)
(*   kickoff         crew.kickoff() returns the text that self.llm.chat   *)
(*                   returned for the backend outcome                     *)
StageOutcomes ==
    { [kind |-> "task_raises"], [kind |-> "crew_raises"], [kind |-> "kickoff_raises"] }
    \cup { [kind |-> "kickoff", backend |-> << o >>] : o \in BackendOutcomes }

\* the text crew.kickoff() yields: the one the stage's llm call returned
kickoff(backend) == chat(backend).ret

Effect(o) ==
    [ built  |-> o.kind # "task_raises",
      kicked |-> o.kind \in {"kickoff_raises", "kickoff"},
      ok     |-> o.kind = "kickoff",
      text   |-> IF o.kind = "kickoff" THEN kickoff(o.backend) ELSE Unbound ]

\* a variant of NextPc in which a failed REVIEW is skipped over
NextPc_review_optional(stage, ok) ==
    CASE ok /\ stage = "GENERATE" -> "review"
      [] stage = "REVIEW"         -> "improve"
      [] ok /\ stage = "IMPROVE"  -> "done"
      [] OTHER                    -> "failed"

\* where run_crew continues after a stage: the next statement of the try
\* block, or the except clause
NextPc(stage, ok) ==
    CASE ok /\ stage = "GENERATE" -> "review"
      [] ok /\ stage = "REVIEW"   -> "improve"
      [] ok /\ stage = "IMPROVE"  -> "done"
      [] OTHER                    -> "failed"

RunInit ==
    /\ model_ok \in BOOLEAN
    /\ store \in Stores
    /\ pc = "idle"
    /\ requirement = Unbound
    /\ query = Unbound
    /\ encoded = FALSE
    /\ contacted = FALSE
    /\ exc = NoExc
    /\ code_requirements = Unbound
    /\ related_examples = <<>>
    /\ searched = <<>>
    /\ task1 = NoTask /\ task2 = NoTask /\ task3 = NoTask
    /\ gen_result_str = Unbound
    /\ review_result_str = Unbound
    /\ final_result_str = Unbound
    /\ stages = <<>>
    /\ ret = Unbound
    /\ ChatIdle
    /\ FmtIdle
    /\ PromptIdle
    /\ SearchIdle
    /\ AuxIdle

\* lines 95-109: the requirement is clipped, the examples are retrieved
Enter ==
    /\ pc = "idle"
    /\ \E req \in Requirements :
         LET clipped == Clip(req, REQUIREMENT_LIMIT)
             found   == search_relevant_code(model_ok, store, "PL/SQL " \o clipped, 1)
         IN  /\ requirement' = req
             /\ query' = "PL/SQL " \o clipped
             /\ encoded' = found.encoded
             /\ contacted' = found.contacted
             /\ code_requirements' = clipped
             /\ related_examples' = found.ret
             /\ searched' = found.searched
    /\ pc' = "agents"
    /\ UNCHANGED <<model_ok, store, exc, task1, task2, task3, gen_result_str,
                   review_result_str, final_result_str, stages, ret>>
    /\ UNCHANGED chatVars
    /\ UNCHANGED fmtVars
    /\ UNCHANGED promptVars
    /\ UNCHANGED searchVars
    /\ UNCHANGED auxVars

\* lines 111-136: the three agents are constructed, outside any try
MakeAgents ==
    /\ pc = "agents"
    /\ \E constructed \in BOOLEAN :
         IF constructed
         THEN pc' = "generate" /\ exc' = exc
         ELSE pc' = "raised" /\ exc' = [site |-> "agents", stage |-> "none"]
    /\ UNCHANGED <<model_ok, store, requirement, query, encoded, contacted,
                   code_requirements, related_examples, searched,
                   task1, task2, task3, gen_result_str, review_result_str,
                   final_result_str, stages, ret>>
    /\ UNCHANGED chatVars
    /\ UNCHANGED fmtVars
    /\ UNCHANGED promptVars
    /\ UNCHANGED searchVars
    /\ UNCHANGED auxVars

\* lines 139-145, and the except clause of lines 164-168
Generate ==
    /\ pc = "generate"
    /\ \E o \in StageOutcomes :
         LET e == Effect(o)
             requirements == [type |-> "PL/SQL", description |-> code_requirements]
         IN  /\ task1' = IF e.built
                         THEN _code_gen_task_fn(requirements, related_examples)
                         ELSE task1
             /\ stages' = IF e.kicked THEN Append(stages, "GENERATE") ELSE stages
             /\ gen_result_str' = e.text
             /\ pc' = NextPc("GENERATE", e.ok)
             /\ ret' = IF e.ok THEN ret ELSE RunCrewErrorMsg
             /\ exc' = IF e.ok THEN exc ELSE [site |-> o.kind, stage |-> "GENERATE"]
    /\ UNCHANGED <<model_ok, store, requirement, query, encoded, contacted,
                   code_requirements, related_examples, searched,
                   task2, task3, review_result_str, final_result_str>>
    /\ UNCHANGED chatVars
    /\ UNCHANGED fmtVars
    /\ UNCHANGED promptVars
    /\ UNCHANGED searchVars
    /\ UNCHANGED auxVars

\* lines 147-153, and the except clause of lines 164-168
Review ==
    /\ pc = "review"
    /\ \E o \in StageOutcomes :
         LET e == Effect(o)
         IN  /\ task2' = IF e.built THEN _review_task_fn(gen_result_str) ELSE task2
             /\ stages' = IF e.kicked THEN Append(stages, "REVIEW") ELSE stages
             /\ review_result_str' = e.text
             /\ pc' = NextPc("REVIEW", e.ok)
             /\ ret' = IF e.ok THEN ret ELSE RunCrewErrorMsg
             /\ exc' = IF e.ok THEN exc ELSE [site |-> o.kind, stage |-> "REVIEW"]
    /\ UNCHANGED <<model_ok, store, requirement, query, encoded, contacted,
                   code_requirements, related_examples, searched,
                   task1, task3, gen_result_str, final_result_str>>
    /\ UNCHANGED chatVars
    /\ UNCHANGED fmtVars
    /\ UNCHANGED promptVars
    /\ UNCHANGED searchVars
    /\ UNCHANGED auxVars

\* the arguments run_crew passes to _improvement_task_fn (line 156)
ImproveArgs_notes_twice == << review_result_str, review_result_str >>

ImproveArgs == << review_result_str, gen_result_str >>

\* lines 155-163, and the except clause of lines 164-168
Improve ==
    /\ pc = "improve"
    /\ \E o \in StageOutcomes :
         LET e == Effect(o)
         IN  /\ task3' = IF e.built
                         THEN _improvement_task_fn(ImproveArgs[1], ImproveArgs[2])
                         ELSE task3
             /\ stages' = IF e.kicked THEN Append(stages, "IMPROVE") ELSE stages
             /\ final_result_str' = e.text
             /\ pc' = NextPc("IMPROVE", e.ok)
             /\ ret' = IF e.ok THEN _format_final_result(e.text) ELSE RunCrewErrorMsg
             /\ exc' = IF e.ok THEN exc ELSE [site |-> o.kind, stage |-> "IMPROVE"]
    /\ UNCHANGED <<model_ok, store, requirement, query, encoded, contacted,
                   code_requirements, related_examples, searched,
                   task1, task2, gen_result_str, review_result_str>>
    /\ UNCHANGED chatVars
    /\ UNCHANGED fmtVars
    /\ UNCHANGED promptVars
    /\ UNCHANGED searchVars
    /\ UNCHANGED auxVars

Next ==
    \/ Enter
    \/ MakeAgents
    \/ Generate
    \/ Review
    \/ Improve

Spec == RunInit /\ [][Next]_vars

-----------------------------------------------------------------------------
(* Specification SpecPrompt: the three prompt functions applied to texts   *)
(* whose lengths lie around the character budgets                          *)

\* a text of exactly n characters, no two of its prefixes alike
Text(n) == SubSeq(Rep("abcdefghij", (n \div 10) + 1), 1, n)

PromptLengths ==
    {0, 3000}
    \cup { limit + d : limit \in {REVIEW_NOTES_LIMIT, REVIEW_INPUT_LIMIT,
                                  ORIGINAL_CODE_LIMIT},
                       d \in (0 - Slack)..Slack }

PromptTexts == { Text(n) : n \in PromptLengths }

\* the lists of payloads search_relevant_code may hand to _code_gen_task_fn
ExampleLists ==
    { <<>>,
      << Payloads.content >>,
      << Payloads.text >>,
      << Payloads.meta >>,
      << Payloads.none >>,
      << Payloads.text, Payloads.content >> }
    \cup { << Dict(<< [k |-> "content", v |-> Text(EXAMPLE_LIMIT + d)] >>) >> :
             d \in (0 - Slack)..Slack }

PromptInit ==
    /\ pr_examples \in ExampleLists
    /\ pr_code \in PromptTexts
    /\ pr_notes \in { Text(n) : n \in { m \in PromptLengths : m <= REVIEW_INPUT_LIMIT } }
    /\ pr_task1 = NoTask /\ pr_task2 = NoTask /\ pr_task3 = NoTask
    /\ RunIdle
    /\ ChatIdle
    /\ FmtIdle
    /\ SearchIdle
    /\ AuxIdle

BuildGenerateTask ==
    /\ pr_task1 = NoTask
    /\ pr_task1' = _code_gen_task_fn(
                       [type |-> "PL/SQL", description |-> "add a function"],
                       pr_examples)
    /\ UNCHANGED <<pr_examples, pr_code, pr_notes, pr_task2, pr_task3>>
    /\ UNCHANGED runVars
    /\ UNCHANGED chatVars
    /\ UNCHANGED fmtVars
    /\ UNCHANGED searchVars
    /\ UNCHANGED auxVars

BuildReviewTask ==
    /\ pr_task2 = NoTask
    /\ pr_task2' = _review_task_fn(pr_code)
    /\ UNCHANGED <<pr_examples, pr_code, pr_notes, pr_task1, pr_task3>>
    /\ UNCHANGED runVars
    /\ UNCHANGED chatVars
    /\ UNCHANGED fmtVars
    /\ UNCHANGED searchVars
    /\ UNCHANGED auxVars

BuildImproveTask ==
    /\ pr_task3 = NoTask
    /\ pr_task3' = _improvement_task_fn(pr_notes, pr_code)
    /\ UNCHANGED <<pr_examples, pr_code, pr_notes, pr_task1, pr_task2>>
    /\ UNCHANGED runVars
    /\ UNCHANGED chatVars
    /\ UNCHANGED fmtVars
    /\ UNCHANGED searchVars
    /\ UNCHANGED auxVars

PromptNext ==
    \/ BuildGenerateTask
    \/ BuildReviewTask
    \/ BuildImproveTask

SpecPrompt == PromptInit /\ [][PromptNext]_vars

\* s cut to its first n characters and marked, or s itself when it has at
\* most n characters
CutAndMarked(s, n) ==
    IF Len(s) > n THEN SubSeq(s, 1, n) \o "..." ELSE s

\* C12, as stated: the prior-stage text embedded in a later prompt never
\* exceeds its budget: 1000 characters of GENERATE output for the reviewer,
\* 100 characters of review notes and 2000 characters of original code for
\* the improver; a text within its budget is embedded unchanged.
C12_WithinBudget ==
    /\ pr_task2 # NoTask =>
          /\ Len(pr_task2.code_output) <= REVIEW_INPUT_LIMIT
          /\ Len(pr_code) <= REVIEW_INPUT_LIMIT => pr_task2.code_output = pr_code
    /\ pr_task3 # NoTask =>
          /\ Len(pr_task3.review_notes) <= REVIEW_NOTES_LIMIT
          /\ Len(pr_task3.original_code) <= ORIGINAL_CODE_LIMIT
          /\ Len(pr_notes) <= REVIEW_NOTES_LIMIT => pr_task3.review_notes = pr_notes
          /\ Len(pr_code) <= ORIGINAL_CODE_LIMIT => pr_task3.original_code = pr_code

\* C12, amended: a prior-stage text longer than its budget N is embedded as
\* its first N characters followed by the marker "...", so the embedded
\* text has at most N + 3 characters (N = 1000 for the GENERATE output
\* shown to the reviewer, 100 for the review notes and 2000 for the
\* original code shown to the improver); a text within its budget is
\* embedded unchanged.
C12_CutAndMarked ==
    /\ pr_task2 # NoTask =>
          /\ pr_task2.code_output = CutAndMarked(pr_code, 1000)
          /\ Len(pr_task2.code_output) <= 1000 + 3
    /\ pr_task3 # NoTask =>
          /\ pr_task3.review_notes = CutAndMarked(pr_notes, 100)
          /\ Len(pr_task3.review_notes) <= 100 + 3
          /\ pr_task3.original_code = CutAndMarked(pr_code, 2000)
          /\ Len(pr_task3.original_code) <= 2000 + 3

C12_Witness ==
    /\ pr_task2 # NoTask /\ pr_task3 # NoTask
    /\ Len(pr_code) = 3000
    /\ Len(pr_notes) = 101
    /\ Len(pr_task2.code_output) = 1003
    /\ Len(pr_task3.review_notes) = 103
    /\ Len(pr_task3.original_code) = 2003

\* C13: the retrieved-context snippet embedded in the generation prompt is
\* the first 1000 characters of the extracted payload text followed by
\* "..." when that text is longer than 1000 characters, and the whole text
\* with no marker otherwise; with no retrieved example the prompt has no
\* example section at all.
C13_ExampleSnippet ==
    pr_task1 # NoTask =>
        IF pr_examples = <<>>
        THEN pr_task1.examples_text = ""
        ELSE LET text == _extract_content_from_payload(pr_examples[1])
             IN  pr_task1.examples_text =
                     "Here's a related code example:\n\n"
                     \o CutAndMarked(text, 1000) \o "\n\n"

C13_Witness ==
    /\ pr_task1 # NoTask
    /\ pr_examples # <<>>
    /\ Len(_extract_content_from_payload(pr_examples[1])) = 1001
    /\ EndsWith(pr_task1.examples_text, "abcdefghij...\n\n")

-----------------------------------------------------------------------------
(* Specification SpecChat: one call of LiteLLMGroqWrapper.chat against a   *)
(* backend whose successive requests end as chat_backend says              *)

ChatInit ==
    /\ chat_pc = "call"
    /\ chat_backend \in [1..MaxRequests -> BackendOutcomes]
    /\ chat_ret = Unbound
    /\ chat_calls = 0
    /\ RunIdle
    /\ FmtIdle
    /\ PromptIdle
    /\ SearchIdle
    /\ AuxIdle

ChatCall ==
    /\ chat_pc = "call"
    /\ LET r == chat(chat_backend)
       IN  /\ chat_pc' = IF r.raised THEN "raised" ELSE "returned"
           /\ chat_ret' = r.ret
           /\ chat_calls' = r.calls
    /\ UNCHANGED chat_backend
    /\ UNCHANGED runVars
    /\ UNCHANGED fmtVars
    /\ UNCHANGED promptVars
    /\ UNCHANGED searchVars
    /\ UNCHANGED auxVars

ChatNext == ChatCall

SpecChat == ChatInit /\ [][ChatNext]_vars

-----------------------------------------------------------------------------
(* Claims about run_crew, under Spec *)

IsPrefix(s, t) == Len(s) <= Len(t) /\ SubSeq(t, 1, Len(s)) = s

InSeq(x, s) == \E i \in 1..Len(s) : s[i] = x

\* the text holds every required header as a substring
Conformant(t) ==
    \A i \in 1..Len(required_sections) : In(required_sections[i], t)

\* the text starts with the validator's banner
BannerWrapped(t) ==
    StartsWith(t, "/* Error: The following sections are missing from the generated result: ")

\* C1, as stated: every run of run_crew that returns has executed the three
\* stages GENERATE, REVIEW, IMPROVE, in that order and each exactly once.
C1_EveryRunAllStages ==
    pc \in {"done", "failed"} => stages = StageOrder

\* C1, amended: the stages executed by a run are always a prefix of
\* GENERATE, REVIEW, IMPROVE (fixed order, none skipped, none retried), a
\* stage is executed only after its predecessor delivered its output, and a
\* run that returns a validated result has executed all three exactly once;
\* a run in which building or executing a stage raises ends at that stage
\* with the fixed error string.
C1_StagesInOrder ==
    /\ IsPrefix(stages, StageOrder)
    /\ InSeq("REVIEW", stages) => gen_result_str # Unbound
    /\ InSeq("IMPROVE", stages) => review_result_str # Unbound
    /\ pc = "review" => stages = SubSeq(StageOrder, 1, 1)
    /\ pc = "improve" => stages = SubSeq(StageOrder, 1, 2)
    /\ pc = "done" => stages = StageOrder /\ exc = NoExc
    /\ pc = "failed" =>
          /\ ret = RunCrewErrorMsg
          /\ exc.stage \in {StageOrder[i] : i \in 1..Len(StageOrder)}
          /\ exc.site = "kickoff_raises" =>
                 stages # <<>> /\ stages[Len(stages)] = exc.stage
          /\ exc.site # "kickoff_raises" => ~InSeq(exc.stage, stages)

C1_Witness ==
    /\ pc = "done"
    /\ stages = StageOrder
    /\ Conformant(ret)

\* C2: whenever an exception is raised while run_crew constructs the stage
\* agents, builds a stage's task or executes a stage, run_crew does not
\* raise: it returns the fixed comment-style error string.
C2_NoExceptionEscapes ==
    exc.site # "none" =>
        /\ pc # "raised"
        /\ pc \in {"done", "failed"} => ret = RunCrewErrorMsg

\* C5, as stated: when the REVIEW stage returned the rate-limit message, the
\* run executes IMPROVE with that message as the review notes and returns
\* the validated IMPROVE output, not an error.
C5_SentinelRunReturnsImproveOutput ==
    (review_result_str = RateLimitMsg /\ pc \in {"done", "failed"}) =>
        /\ InSeq("IMPROVE", stages)
        /\ task3 # NoTask
        /\ task3.review_notes = RateLimitMsg
        /\ ret = _format_final_result(final_result_str)

\* C5, amended: when the REVIEW stage returned the rate-limit message, the
\* run goes on to IMPROVE as after any other review text; the IMPROVE prompt
\* carries that message as its review notes; and run_crew returns the
\* validated IMPROVE output unless building or executing the IMPROVE stage
\* itself raises, in which case it returns the fixed error string.
C5_SentinelNotSpecialCased ==
    review_result_str = RateLimitMsg =>
        /\ pc \in {"improve", "done", "failed"}
        /\ task3 # NoTask => task3.review_notes = RateLimitMsg
        /\ pc = "done" =>
              /\ InSeq("IMPROVE", stages)
              /\ task3 # NoTask
              /\ ret = _format_final_result(final_result_str)
        /\ pc = "failed" =>
              /\ exc.stage = "IMPROVE"
              /\ ret = RunCrewErrorMsg

C5_Witness ==
    /\ pc = "done"
    /\ review_result_str = RateLimitMsg
    /\ stages = StageOrder
    /\ task3.review_notes = RateLimitMsg
    /\ Conformant(final_result_str)
    /\ ret = final_result_str

\* C6: when retrieval yields zero matches, run_crew never raises, executes
\* all three stages and returns a non-empty string that holds all seven
\* required headers or is wrapped in the validator's banner.
C6_ZeroMatchesCompletes ==
    (pc # "idle" /\ related_examples = <<>>) =>
        /\ pc # "raised"
        /\ pc \in {"done", "failed"} =>
              /\ stages = StageOrder
              /\ ret # ""
              /\ Conformant(ret) \/ BannerWrapped(ret)

\* C7, the prompts' slots: within one run the REVIEW prompt embeds (within its budget) the
\* output of the run's GENERATE stage, the IMPROVE prompt embeds the output
\* of the run's REVIEW stage as review notes and the GENERATE output as
\* code, and the GENERATE output, once captured, is never replaced.
C7_Embeds ==
    /\ task2 # NoTask =>
          task2.code_output = Clip(gen_result_str, REVIEW_INPUT_LIMIT)
    /\ task3 # NoTask =>
          /\ task3.review_notes = Clip(review_result_str, REVIEW_NOTES_LIMIT)
          /\ task3.original_code = Clip(gen_result_str, ORIGINAL_CODE_LIMIT)

\* C7 (the formula checked): the embedded texts are always those of the
\* run's own stages, and a captured GENERATE output never changes.
C7_PromptsEmbedStageOutputs ==
    /\ []C7_Embeds
    /\ [][gen_result_str # Unbound => gen_result_str' = gen_result_str]_vars

C7_Witness ==
    /\ pc = "done"
    /\ task2.code_output = gen_result_str
    /\ task3.original_code = gen_result_str
    /\ task3.review_notes = review_result_str
    /\ gen_result_str # review_result_str
    /\ final_result_str # gen_result_str
    /\ final_result_str # review_result_str

\* C11, as stated: a requirement longer than 200 characters reaches the
\* stage prompt and the retrieval query clipped to 200 characters, and a
\* requirement of at most 200 characters is passed on unchanged.
C11_ClippedTo200 ==
    pc # "idle" =>
        /\ Len(code_requirements) <= REQUIREMENT_LIMIT
        /\ Len(requirement) <= REQUIREMENT_LIMIT => code_requirements = requirement
        /\ Len(requirement) > REQUIREMENT_LIMIT =>
               code_requirements = SubSeq(requirement, 1, REQUIREMENT_LIMIT)

\* C11, amended: a requirement longer than 200 characters is replaced by
\* its first 200 characters followed by the marker "..." (203 characters),
\* a requirement of at most 200 characters is kept unchanged; the retrieval
\* query is "PL/SQL " followed by that description and the GENERATE prompt
\* embeds that description.
C11_RequirementClip ==
    pc # "idle" =>
        /\ Len(requirement) <= REQUIREMENT_LIMIT => code_requirements = requirement
        /\ Len(requirement) > REQUIREMENT_LIMIT =>
               /\ code_requirements = SubSeq(requirement, 1, REQUIREMENT_LIMIT) \o "..."
               /\ Len(code_requirements) = REQUIREMENT_LIMIT + 3
        /\ query = "PL/SQL " \o code_requirements
        /\ task1 # NoTask => task1.description = code_requirements

C11_Witness ==
    /\ pc = "review"
    /\ Len(requirement) = 5000
    /\ Len(task1.description) = REQUIREMENT_LIMIT + 3
    /\ EndsWith(task1.description, "...")

-----------------------------------------------------------------------------
(* Claims about LiteLLMGroqWrapper.chat, under SpecChat *)

\* C3: chat never raises to its caller and always returns a string: the
\* backend's text when the completion succeeds, and the fixed generic
\* degraded-mode message on every backend failure that is not a rate-limit
\* failure.
C3_ChatNeverRaises ==
    /\ chat_pc # "raised"
    /\ chat_pc = "returned" =>
          /\ chat_ret \in STRING
          /\ chat_ret # Unbound
          /\ chat_backend[1].kind = "ok" => chat_ret = chat_backend[1].content
          /\ chat_backend[1].kind \in {"error", "malformed"} => chat_ret = GenericMsg

C3_Witness ==
    /\ chat_pc = "returned"
    /\ chat_backend[1].kind = "malformed"
    /\ chat_ret = GenericMsg

\* C4: when the backend completion fails with a rate-limit error, chat
\* returns the fixed rate-limit message and has issued exactly one backend
\* request: the failed request is not retried inside the call.
C4_RateLimitNoRetry ==
    (chat_pc # "call" /\ chat_backend[1].kind = "rate_limit") =>
        /\ chat_pc = "returned"
        /\ chat_ret = RateLimitMsg
        /\ chat_calls = 1

C4_Witness ==
    /\ chat_pc = "returned"
    /\ chat_backend[1].kind = "rate_limit"
    /\ chat_backend[2].kind = "ok"
    /\ chat_ret = RateLimitMsg
    /\ chat_calls = 1

-----------------------------------------------------------------------------
(* Claims about _format_final_result, under SpecFormat *)

\* C8: a final text that contains all seven required section headers is
\* returned unchanged by _format_final_result, and validating the result
\* again returns the same string once more.
C8_ConformantUnchanged ==
    \A k \in 2..Len(fmt_hist) :
        Conformant(fmt_hist[1]) => fmt_hist[k] = fmt_hist[1]

C8_Witness ==
    /\ Len(fmt_hist) = 3
    /\ fmt_sections = AllSections
    /\ fmt_layout = "reversed"
    /\ fmt_hist[3] = fmt_hist[1]

\* C9: for a final text that lacks one or more required headers,
\* _format_final_result returns an error banner that names every missing
\* header and no header that is present, followed by the original text
\* verbatim; the original text is never dropped.
C9_BannerNamesMissing ==
    (Len(fmt_hist) >= 2 /\ ~Conformant(fmt_hist[1])) =>
        LET in     == fmt_hist[1]
            out    == fmt_hist[2]
            banner == SubSeq(out, 1, Len(out) - Len(in))
        IN  /\ Len(out) > Len(in)
            /\ EndsWith(out, in)
            /\ StartsWith(banner, "/* Error: ")
            /\ EndsWith(banner, " */\n\n")
            /\ \A i \in AllSections :
                   In(required_sections[i], banner) <=> ~In(required_sections[i], in)

C9_Witness ==
    /\ Len(fmt_hist) >= 2
    /\ fmt_sections = AllSections \ {7}
    /\ fmt_layout = "ordered"
    /\ In("Required Import:", fmt_hist[2])
    /\ EndsWith(fmt_hist[2], fmt_hist[1])
    /\ fmt_hist[2] # fmt_hist[1]

\* C27: every value _format_final_result returns holds all seven required
\* headers as substrings, banner-wrapped results included, so validating a
\* validated text returns it unchanged and adds no second banner.
C27_ValidatedIsConformant ==
    /\ \A k \in 2..Len(fmt_hist) : Conformant(fmt_hist[k])
    /\ \A k \in 3..Len(fmt_hist) : fmt_hist[k] = fmt_hist[2]

C27_Witness ==
    /\ Len(fmt_hist) = 3
    /\ fmt_sections = {2, 4}
    /\ fmt_layout = "nearmiss"
    /\ ~Conformant(fmt_hist[1])
    /\ fmt_hist[2] # fmt_hist[1]
    /\ StartsWith(fmt_hist[2], "/* Error: ")
    /\ fmt_hist[3] = fmt_hist[2]

\* C10: whether _format_final_result accepts a text (returns it unchanged)
\* depends only on which required headers occur in it: it is accepted
\* exactly when all seven occur, whatever their order, their number of
\* occurrences and their position on a line.
C10_MembershipOnly ==
    Len(fmt_hist) >= 2 =>
        ((fmt_hist[2] = fmt_hist[1]) <=> (fmt_sections = AllSections))

C10_Witness ==
    /\ Len(fmt_hist) >= 2
    /\ fmt_sections = AllSections
    /\ fmt_layout = "inline"
    /\ fmt_hist[2] = fmt_hist[1]

-----------------------------------------------------------------------------
(* Specification SpecSearch: one retrieval call of one generator on a      *)
(* store whose matches carry scores                                        *)

Digit(i) == SubSeq("123456789", i, i)

\* what a collection answers, best first by the store's own measure: the
\* score and the kind of payload of each match
Rankings ==
    { <<>>,
      << [score |-> 90, kind |-> "text"], [score |-> 95, kind |-> "text"],
         [score |-> 20, kind |-> "text"] >>,
      << [score |-> 99, kind |-> "text"] >>,
      << [score |-> 95, kind |-> "text"], [score |-> 95, kind |-> "notext"] >>,
      << [score |-> 50, kind |-> "none"] >> }

\* the matches of collection name under a ranking
Hits(name, ranking) ==
    [i \in 1..Len(ranking) |->
        [id |-> << name, i >>,
         score |-> ranking[i].score,
         payload |->
             IF ranking[i].kind = "text"
             THEN Dict(<< [k |-> "text", v |-> name \o "#" \o Digit(i)] >>)
             ELSE IF ranking[i].kind = "notext"
             THEN Dict(<< [k |-> "source", v |-> name] >>)
             ELSE NonePayload]]

\* the collection names the application configures each generator with
ConfiguredNames ==
    { << "Flexcube_user_guide_14.x", "Flexcube_Userguide_12.x" >>,
      << "Flexcube_user_guide_14.x", "Flexcube_Userguide_12.x", "fn_tables2" >>,
      collections }

Range(s) == { s[i] : i \in 1..Len(s) }

\* the stores a call with the configured names may meet: any of the names
\* may be missing from the catalog, and a collection nobody asks for may
\* be in it
ScoredStores(names) ==
    { [up |-> TRUE, catalog |-> DOMAIN rank, failing |-> failing,
       points |-> [n \in DOMAIN rank |-> Hits(n, rank[n])]] :
        rank \in UNION { [cat -> Rankings] :
                           cat \in { c \cup other :
                                       c \in SUBSET Range(names),
                                       other \in {{}, {"unrelated"}} } },
        failing \in SUBSET Range(names) }

SearchInit ==
    /\ rs_names \in ConfiguredNames
    /\ rs_store \in { st \in ScoredStores(rs_names) :
                        /\ st.failing \subseteq st.catalog
                        /\ "unrelated" \in st.catalog =>
                               st.points["unrelated"] = Hits("unrelated", << [score |-> 99, kind |-> "text"] >>) }
    /\ rs_top_k \in 1..MaxTopK
    /\ rs_op = "none"
    /\ rs_out = NoOut
    /\ RunIdle
    /\ ChatIdle
    /\ FmtIdle
    /\ PromptIdle
    /\ AuxIdle

SemanticSearch ==
    /\ rs_op = "none"
    /\ rs_op' = "semantic_search"
    /\ rs_out' = semantic_search(rs_store, rs_names, rs_top_k)
    /\ UNCHANGED <<rs_store, rs_names, rs_top_k>>
    /\ UNCHANGED runVars
    /\ UNCHANGED chatVars
    /\ UNCHANGED fmtVars
    /\ UNCHANGED promptVars
    /\ UNCHANGED auxVars

SearchVectorDb ==
    /\ rs_op = "none"
    /\ rs_op' = "search_vector_db"
    /\ rs_out' = search_vector_db(rs_store, rs_names, rs_top_k)
    /\ UNCHANGED <<rs_store, rs_names, rs_top_k>>
    /\ UNCHANGED runVars
    /\ UNCHANGED chatVars
    /\ UNCHANGED fmtVars
    /\ UNCHANGED promptVars
    /\ UNCHANGED auxVars

SearchRelevantCode ==
    /\ rs_op = "none"
    /\ rs_names = collections
    /\ rs_op' = "search_relevant_code"
    /\ LET found == search_relevant_code(TRUE, PayloadView(rs_store),
                                         "PL/SQL add a function", rs_top_k)
       IN  rs_out' = [ret |-> found.ret, raised |-> found.raised,
                      searched |-> found.searched, results |-> found.ret]
    /\ UNCHANGED <<rs_store, rs_names, rs_top_k>>
    /\ UNCHANGED runVars
    /\ UNCHANGED chatVars
    /\ UNCHANGED fmtVars
    /\ UNCHANGED promptVars
    /\ UNCHANGED auxVars

SearchNext ==
    \/ SemanticSearch
    \/ SearchVectorDb
    \/ SearchRelevantCode

SpecSearch == SearchInit /\ [][SearchNext]_vars

\* C14: no retrieval operation issues a similarity search against a
\* collection name that is absent from the store's catalog at query time.
C14_SearchesOnlyExisting ==
    rs_op # "none" =>
        \A i \in 1..Len(rs_out.searched) : rs_out.searched[i] \in rs_store.catalog

\* the search of a configured name fails: the store raises, or the name is
\* not in the catalog
Fails(name) == name \in rs_store.failing \/ name \notin rs_store.catalog

\* C15: in every retrieval operation a failing search of one collection is
\* skipped and the collections after it are still searched; if every search
\* fails the operation returns an empty sequence; no error of a search
\* reaches the caller.
C15_FailureSkipped ==
    rs_op # "none" =>
        /\ ~rs_out.raised
        /\ \A i, j \in 1..Len(rs_names) :
               (/\ i < j
                /\ InSeq(rs_names[i], rs_out.searched)
                /\ rs_names[i] \in rs_store.failing
                /\ rs_names[j] \in rs_store.catalog)
               => InSeq(rs_names[j], rs_out.searched)
        /\ (\A i \in 1..Len(rs_names) : Fails(rs_names[i])) => rs_out.ret = <<>>

\* C16: when none of the configured collections exists in the store,
\* search_relevant_code returns an empty list, raises nothing and issues no
\* similarity search.
C16_NoValidCollection ==
    (/\ rs_op = "search_relevant_code"
     /\ \A i \in 1..Len(rs_names) : rs_names[i] \notin rs_store.catalog)
    => /\ rs_out.ret = <<>>
       /\ ~rs_out.raised
       /\ rs_out.searched = <<>>

C16_Witness ==
    /\ rs_op = "search_relevant_code"
    /\ rs_store.catalog = {"unrelated"}
    /\ rs_store.points["unrelated"] # <<>>
    /\ rs_out.ret = <<>>
    /\ rs_out.searched = <<>>

\* C17: with no embedding model (self.model is None) the retrieval of a run
\* returns an empty list, raises nothing, embeds no query and contacts no
\* store; the run goes on to the construction of the stages, and the
\* GENERATE prompt it builds has no example section.
C17_NoModelShortCircuits ==
    (pc # "idle" /\ ~model_ok) =>
        /\ related_examples = <<>>
        /\ ~encoded
        /\ ~contacted
        /\ searched = <<>>
        /\ pc = "raised" => exc.site = "agents"
        /\ task1 # NoTask => task1.examples_text = ""

C17_Witness ==
    /\ ~model_ok
    /\ search_relevant_code(TRUE, store, query, 1).ret # <<>>
    /\ pc = "review"
    /\ stages = << "GENERATE" >>
    /\ task1.examples_text = ""

\* C28: search_relevant_code issues at most one similarity search per
\* call, against the first configured collection that exists in the store;
\* it returns that collection's payloads in the store's order, at most
\* n_results of them; no other valid collection is searched, and when that
\* one search fails the call returns an empty list.
C28_FirstValidOnly ==
    rs_op = "search_relevant_code" =>
        /\ ~rs_out.raised
        /\ Len(rs_out.searched) <= 1
        /\ Len(rs_out.ret) <= rs_top_k
        /\ \A i \in 1..Len(rs_names) :
               (/\ rs_names[i] \in rs_store.catalog
                /\ \A j \in 1..(i - 1) : rs_names[j] \notin rs_store.catalog)
               => /\ rs_out.searched = << rs_names[i] >>
                  /\ rs_names[i] \in rs_store.failing => rs_out.ret = <<>>
                  /\ rs_names[i] \notin rs_store.failing =>
                         LET points == rs_store.points[rs_names[i]]
                             n == IF Len(points) < rs_top_k THEN Len(points) ELSE rs_top_k
                         IN  rs_out.ret = [k \in 1..n |-> points[k].payload]

C28_Witness ==
    /\ rs_op = "search_relevant_code"
    /\ rs_top_k = 2
    /\ rs_store.catalog = {"DDL_Database", "sql-embeddings_main2"}
    /\ rs_store.failing = {}
    /\ Len(rs_store.points["DDL_Database"]) = 3
    /\ Len(rs_store.points["sql-embeddings_main2"]) = 2
    /\ rs_out.searched = << "DDL_Database" >>
    /\ Len(rs_out.ret) = 2
    /\ rs_out.ret[1] = rs_store.points["DDL_Database"][1].payload

\* the matches a call with top_k gathers, collection after collection
RECURSIVE Gathered(_, _, _)
Gathered(st, names, top_k) ==
    IF names = <<>> THEN <<>>
    ELSE Take(st.points[Head(names)], top_k) \o Gathered(st, Tail(names), top_k)

\* the place of the p-th gathered match in the ranking: behind every match
\* of greater score and every earlier match of equal score
Place(all, p) ==
    1 + Cardinality({ q \in 1..Len(all) :
                        \/ all[q].score > all[p].score
                        \/ all[q].score = all[p].score /\ q < p })

\* C18: semantic_search returns the payload texts of the top_k matches of
\* the concatenation of all collections' matches, by descending score,
\* matches of equal score in the order they were met.
C18_TopKStableDescending ==
    (rs_op = "semantic_search" /\ ~rs_out.raised) =>
        LET all == Gathered(rs_store, rs_names, rs_top_k)
        IN  /\ Len(rs_out.ret) = IF Len(all) < rs_top_k THEN Len(all) ELSE rs_top_k
            /\ \A p \in 1..Len(all) :
                   Place(all, p) <= rs_top_k =>
                       rs_out.ret[Place(all, p)] =
                           IF HasKey(all[p].payload, "text")
                           THEN Get(all[p].payload, "text") ELSE ""

C18_Witness ==
    /\ rs_op = "semantic_search"
    /\ rs_names = << "Flexcube_user_guide_14.x", "Flexcube_Userguide_12.x", "fn_tables2" >>
    /\ rs_top_k = 2
    /\ rs_store.failing = {}
    /\ rs_names[1] \in rs_store.catalog
    /\ [i \in 1..Len(rs_store.points[rs_names[1]]) |->
           rs_store.points[rs_names[1]][i].score] = << 90, 95, 20 >>
    /\ rs_names[2] \in rs_store.catalog
    /\ [i \in 1..Len(rs_store.points[rs_names[2]]) |->
           rs_store.points[rs_names[2]][i].score] = << 99 >>
    /\ rs_names[3] \in rs_store.catalog
    /\ [i \in 1..Len(rs_store.points[rs_names[3]]) |->
           rs_store.points[rs_names[3]][i].score] = << 95, 95 >>
    /\ ~rs_out.raised
    /\ rs_out.ret = << "Flexcube_Userguide_12.x#1", "Flexcube_user_guide_14.x#2" >>

\* C19: search_vector_db returns its matches sorted by descending score and
\* at most top_k of them, however many collections are searched.
C19_SortedAndTruncated ==
    rs_op = "search_vector_db" =>
        /\ Len(rs_out.ret) <= rs_top_k
        /\ \A i, j \in 1..Len(rs_out.ret) :
               i < j => rs_out.ret[i].score >= rs_out.ret[j].score

\* the orders in which the configured collections can be searched
Orders(names) ==
    { [i \in 1..Len(names) |-> names[f[i]]] : f \in Permutations(1..Len(names)) }

\* every order of searching the collections gives the call's outcome
SameInEveryOrder ==
    \A o \in Orders(rs_names) :
        LET other == semantic_search(rs_store, o, rs_top_k)
        IN  other.raised = rs_out.raised /\ other.ret = rs_out.ret

\* no two matches gathered from different collections have the same score
NoCrossTies ==
    \A a, b \in Range(rs_names) \cap rs_store.catalog :
        a # b =>
            \A i \in 1..Len(Take(rs_store.points[a], rs_top_k)),
               j \in 1..Len(Take(rs_store.points[b], rs_top_k)) :
                rs_store.points[a][i].score # rs_store.points[b][j].score

\* C20, as stated: the merged result of semantic_search is the same for
\* every order in which the collections are searched and concatenated.
C20_OrderIndependent ==
    rs_op = "semantic_search" => SameInEveryOrder

\* C20, amended: the merged result of semantic_search is the same for every
\* order in which the collections are searched and concatenated, provided
\* no two matches from different collections have the same score.
C20_OrderIndependentWithoutTies ==
    (rs_op = "semantic_search" /\ NoCrossTies) => SameInEveryOrder

C20_Witness ==
    /\ rs_op = "semantic_search"
    /\ Len(rs_names) = 3
    /\ rs_top_k = 2
    /\ NoCrossTies
    /\ ~rs_out.raised
    /\ Len(rs_out.ret) = 2
    /\ rs_out.results[1].id[1] = rs_names[3]
    /\ rs_out.results[2].id[1] = rs_names[1]

-----------------------------------------------------------------------------
(* Specification SpecEmbed: the two functions that resize an embedding,    *)
(* FlexcubeTestCaseGenerator._pad_embeddings and the resizing part of      *)
(* FunctionDocumentGenerator.generate_embeddings, on vectors of several    *)
(* native lengths                                                          *)

\* FlexcubeTestCaseGenerator.__init__: self.original_dim, self.target_dim
original_dim == 384
target_dim == 896

\* the dimension written into generate_embeddings
DOC_TARGET_DIM == 896

\* np.pad(embeddings, (0, after), mode='constant')
np_pad(embeddings, after) == embeddings \o [i \in 1..after |-> 0]

\* the padding is computed from the two declared dimensions, not from the
\* vector in hand
_pad_embeddings(embeddings) ==
    LET pad_size == target_dim - original_dim
    IN  IF pad_size > 0
        THEN np_pad(embeddings, pad_size)
        ELSE Take(embeddings, target_dim)

\* lines 51-54, on the vector self.model.encode(query) gave
generate_embeddings(embeddings) ==
    IF Len(embeddings) < DOC_TARGET_DIM
    THEN np_pad(embeddings, DOC_TARGET_DIM - Len(embeddings))
    ELSE Take(embeddings, DOC_TARGET_DIM)

\* a vector of n components, none of them zero
Vector(n, seed) == [i \in 1..n |-> ((i * seed) % 7) + 1]

NativeLengths ==
    {1, 100, 900, 1000}
    \cup { d + k : d \in {original_dim, target_dim}, k \in (0 - Slack)..Slack }

EmbedInit ==
    /\ fn_name = "none"
    /\ fn_in \in { Vector(n, seed) : n \in NativeLengths, seed \in 1..4 }
    /\ fn_out = <<>>
    /\ CcIdle /\ TcIdle
    /\ RunIdle
    /\ ChatIdle
    /\ FmtIdle
    /\ PromptIdle
    /\ SearchIdle

PadEmbeddings ==
    /\ fn_name = "none"
    /\ fn_name' = "_pad_embeddings"
    /\ fn_out' = _pad_embeddings(fn_in)
    /\ UNCHANGED <<fn_in, cc_frames, tcVars>>
    /\ UNCHANGED <<runVars, chatVars, fmtVars, promptVars, searchVars>>

GenerateEmbeddings ==
    /\ fn_name = "none"
    /\ fn_name' = "generate_embeddings"
    /\ fn_out' = generate_embeddings(fn_in)
    /\ UNCHANGED <<fn_in, cc_frames, tcVars>>
    /\ UNCHANGED <<runVars, chatVars, fmtVars, promptVars, searchVars>>

EmbedNext ==
    \/ PadEmbeddings
    \/ GenerateEmbeddings

SpecEmbed == EmbedInit /\ [][EmbedNext]_vars

GenerateEmbeddingsResizes ==
    fn_name = "generate_embeddings" =>
        /\ Len(fn_out) = 896
        /\ \A i \in 1..896 : fn_out[i] = IF i <= Len(fn_in) THEN fn_in[i] ELSE 0

\* what _pad_embeddings does: 512 zeros behind whatever it is given
PadEmbeddingsAppends512 ==
    fn_name = "_pad_embeddings" =>
        /\ Len(fn_out) = Len(fn_in) + 512
        /\ \A i \in 1..Len(fn_out) :
               fn_out[i] = IF i <= Len(fn_in) THEN fn_in[i] ELSE 0

-----------------------------------------------------------------------------
(* Specification SpecExtract: _extract_content_from_payload on payloads of *)
(* every shape                                                             *)

\* what a field of a stored payload may hold: str values, and values that
\* are no str (an int, None, a list), with their str() and their truth
FieldValues ==
    { [v |-> "", isstr |-> TRUE, truthy |-> FALSE],
      [v |-> "CREATE FUNCTION f RETURN NUMBER", isstr |-> TRUE, truthy |-> TRUE],
      [v |-> "42", isstr |-> FALSE, truthy |-> TRUE],
      [v |-> "0", isstr |-> FALSE, truthy |-> FALSE],
      [v |-> "None", isstr |-> FALSE, truthy |-> FALSE],
      [v |-> "['a']", isstr |-> FALSE, truthy |-> TRUE] }

WithKey(key, value) ==
    [k |-> key, v |-> value.v, isstr |-> value.isstr, truthy |-> value.truthy]

\* a dict with or without 'content', 'text' and a field of another name
DictPayloads ==
    { ValueDict(source \o content \o text) :
        source \in { <<>>, << WithKey("source", [v |-> "pkg.sql", isstr |-> TRUE, truthy |-> TRUE]) >> },
        content \in { <<>> } \cup { << WithKey("content", x) >> : x \in FieldValues },
        text \in { <<>> } \cup { << WithKey("text", x) >> : x \in FieldValues } }

OtherPayloads ==
    { NonePayload,
      [isdict |-> FALSE, str |-> "SELECT 1 FROM dual"],
      [isdict |-> FALSE, str |-> "['content', 'text']"] }

ExtractInit ==
    /\ fn_name = "none"
    /\ fn_in \in DictPayloads \cup OtherPayloads
    /\ fn_out = <<>>
    /\ CcIdle /\ TcIdle
    /\ RunIdle
    /\ ChatIdle
    /\ FmtIdle
    /\ PromptIdle
    /\ SearchIdle

ExtractContent ==
    /\ fn_name = "none"
    /\ fn_name' = "_extract_content_from_payload"
    /\ fn_out' = _extract_content_from_payload(fn_in)
    /\ UNCHANGED <<fn_in, cc_frames, tcVars>>
    /\ UNCHANGED <<runVars, chatVars, fmtVars, promptVars, searchVars>>

ExtractNext == ExtractContent

SpecExtract == ExtractInit /\ [][ExtractNext]_vars

\* the payload has the field and the field is not empty (not '', None, 0
\* or another value Python takes for false)
NonEmptyField(payload, key) ==
    \E i \in 1..Len(payload.items) :
        payload.items[i].k = key /\ payload.items[i].truthy

\* str() of the field
Stringified(payload, key) ==
    LET i == CHOOSE j \in 1..Len(payload.items) : payload.items[j].k = key
    IN  payload.items[i].v

\* C23: _extract_content_from_payload always returns a string: str() of
\* the 'content' field of a mapping whose 'content' is not empty, else
\* str() of its 'text' field if that is not empty, else str() of the whole
\* payload; a payload that is no mapping is stringified directly.
C23_ExtractByPriority ==
    fn_name = "_extract_content_from_payload" =>
        /\ fn_out \in STRING
        /\ ~fn_in.isdict => fn_out = fn_in.str
        /\ fn_in.isdict =>
               fn_out = IF NonEmptyField(fn_in, "content")
                        THEN Stringified(fn_in, "content")
                        ELSE IF NonEmptyField(fn_in, "text")
                        THEN Stringified(fn_in, "text")
                        ELSE PyStr(fn_in)

C23_Witness ==
    /\ fn_name = "_extract_content_from_payload"
    /\ fn_in.isdict
    /\ HasKey(fn_in, "content") /\ Get(fn_in, "content") = ""
    /\ HasKey(fn_in, "text") /\ ~Item(fn_in, "text").isstr
    /\ fn_out = "42"

-----------------------------------------------------------------------------
(* Specification SpecData: GenerateSTDCIF.generate_test_data, with the     *)
(* fields of a record that depend on its place in the list                 *)

\* str(n) of a natural number
RECURSIVE PyStrInt(_)
PyStrInt(n) ==
    IF n < 10 THEN SubSeq("0123456789", n + 1, n + 1)
    ELSE PyStrInt(n \div 10) \o SubSeq("0123456789", (n % 10) + 1, (n % 10) + 1)

\* s.zfill(width)
zfill(str, width) ==
    IF Len(str) >= width THEN str ELSE Rep("0", width - Len(str)) \o str

\* a variant of generate_test_case_id that numbers by the last digit alone
generate_test_case_id_last_digit(index) ==
    "TS_ST_01_TC" \o zfill(PyStrInt((index + 1) % 10), 2)

generate_test_case_id(index) ==
    "TS_ST_01_TC" \o zfill(PyStrInt(index + 1), 2)

CustomerCategories == << "INDIVIDUAL", "COMMERCIAL", "BANK" >>

\* the fields of the record modelled: its id, its action and, for a copy
\* with master data, the master row it copies; the category stands for the
\* random fields
generate_customer_data(is_new, index, master_data, copy_case_index, seed) ==
    [ TestCaseId |-> generate_test_case_id(index),
      Action |-> IF is_new THEN "New" ELSE "Copy",
      CustomerCategory |-> CustomerCategories[((index + seed) % 3) + 1],
      CustomerNumber |->
          IF ~is_new /\ master_data # <<>>
          THEN "000" \o zfill(master_data[(copy_case_index % Len(master_data)) + 1], 3)
          ELSE "000" \o zfill(PyStrInt((index * 37 + seed) % 1000), 3) ]

\* int(count * 0.8) of a count that is not negative
int_times_08(count) == (count * 8) \div 10

generate_test_data(count, master_data, seed) ==
    LET new_cases == IF int_times_08(count) > 1 THEN int_times_08(count) ELSE 1
        news == [i \in 1..new_cases |->
                    generate_customer_data(TRUE, i - 1, master_data, 0, seed)]
        copies == [k \in 1..(count - new_cases) |->
                      generate_customer_data(FALSE, new_cases + k - 1, master_data,
                                             k - 1, seed)]
    IN  news \o copies

\* master data: none, or the customer numbers of its valid rows (five at
\* least, read_master_data refuses fewer)
MasterData ==
    { <<>>,
      << "1", "2", "3", "4", "5" >>,
      << "101", "102", "103", "104", "105", "106", "107" >> }

DataInit ==
    /\ fn_name = "none"
    /\ fn_in \in [count : 0..MaxCount, master_data : MasterData, seed : 0..2]
    /\ fn_out = <<>>
    /\ CcIdle /\ TcIdle
    /\ RunIdle
    /\ ChatIdle
    /\ FmtIdle
    /\ PromptIdle
    /\ SearchIdle

GenerateTestData ==
    /\ fn_name = "none"
    /\ fn_name' = "generate_test_data"
    /\ fn_out' = generate_test_data(fn_in.count, fn_in.master_data, fn_in.seed)
    /\ UNCHANGED <<fn_in, cc_frames, tcVars>>
    /\ UNCHANGED <<runVars, chatVars, fmtVars, promptVars, searchVars>>

DataNext == GenerateTestData

SpecData == DataInit /\ [][DataNext]_vars

\* the 'New' records come first and the 'Copy' records after them
NewThenCopy(data) ==
    \A i, j \in 1..Len(data) :
        (i < j /\ data[i].Action = "Copy") => data[j].Action = "Copy"

DistinctIds(data) ==
    \A i, j \in 1..Len(data) : i # j => data[i].TestCaseId # data[j].TestCaseId

\* C30, as stated: generate_test_data(count, master_data) returns exactly
\* count records for every integer count >= 0, the 'New' records first,
\* then the 'Copy' records, with pairwise distinct 'Test Case Id' values.
C30_ExactlyCount ==
    fn_name = "generate_test_data" =>
        /\ Len(fn_out) = fn_in.count
        /\ NewThenCopy(fn_out)
        /\ DistinctIds(fn_out)

\* C30, amended: generate_test_data(count, master_data) returns exactly
\* count records for every integer count >= 1, and one 'New' record for
\* count = 0; the 'New' records come first, then the 'Copy' records, and
\* the 'Test Case Id' values are pairwise distinct.
C30_CountAtLeastOne ==
    fn_name = "generate_test_data" =>
        /\ fn_in.count >= 1 => Len(fn_out) = fn_in.count
        /\ fn_in.count = 0 => Len(fn_out) = 1 /\ fn_out[1].Action = "New"
        /\ NewThenCopy(fn_out)
        /\ DistinctIds(fn_out)

C30_Witness ==
    /\ fn_name = "generate_test_data"
    /\ fn_in.count = 11
    /\ Len(fn_in.master_data) = 5
    /\ Len(fn_out) = 11
    /\ fn_out[8].Action = "New"
    /\ fn_out[9].Action = "Copy"
    /\ fn_out[9].CustomerNumber = "000001"
    /\ fn_out[1].TestCaseId = "TS_ST_01_TC01"
    /\ fn_out[11].TestCaseId = "TS_ST_01_TC11"

-----------------------------------------------------------------------------
(* Specification SpecConcurrent: two run_crew calls in flight on the one   *)
(* CodeGenerator instance of app.py, their steps interleaved in any order. *)
(* cc_frames.self holds what the calls share (the attributes of the        *)
(* instance, the store behind it); cc_frames.calls holds, per call, the    *)
(* local variables of its run_crew frame.                                  *)

Calls == {1, 2}

\* each call's requirement and the backend's answers to it carry the
\* call's own mark
Mark(c) == IF c = 1 THEN "<alpha>" ELSE "<beta>"

NewFrame ==
    [ pc |-> "idle", requirement |-> Unbound, code_requirements |-> Unbound,
      related_examples |-> <<>>, task1 |-> NoTask, task2 |-> NoTask,
      task3 |-> NoTask, gen_result_str |-> Unbound,
      review_result_str |-> Unbound, final_result_str |-> Unbound,
      ret |-> Unbound ]

\* a variant in which the locals of run_crew live in one place for all
\* calls, as attributes of the instance would
Frame_on_instance(c) == cc_frames.calls[1]

\* the local variables of call c: a frame of its own
Frame(c) == cc_frames.calls[c]

CcRequirements(c) ==
    { Mark(c) \o " add a function",
      PadTo(Mark(c) \o " add a procedure ", REQUIREMENT_LIMIT + 1) }

\* what a stage of call c may meet
CcStageOutcomes(c, stage) ==
    { [kind |-> "task_raises"], [kind |-> "kickoff_raises"],
      [kind |-> "kickoff", backend |-> << [kind |-> "rate_limit"] >>],
      [kind |-> "kickoff",
       backend |-> << [kind |-> "ok", content |-> Mark(c) \o " " \o stage \o " output"] >>] }
    \cup (IF stage = "GENERATE"
          THEN { [kind |-> "kickoff",
                  backend |-> << [kind |-> "ok",
                                  content |-> PadTo(Mark(c) \o " GENERATE ", EXAMPLE_LIMIT + 1)] >>] }
          ELSE {})
    \cup (IF stage = "IMPROVE"
          THEN { [kind |-> "kickoff",
                  backend |-> << [kind |-> "ok",
                                  content |-> BuildText(AllSections, "ordered") \o Mark(c)] >>] }
          ELSE {})

CcStores ==
    { [up |-> TRUE, catalog |-> {}, failing |-> {}, points |-> <<>>],
      [up |-> TRUE, catalog |-> {"Sql_Database"}, failing |-> {},
       points |-> [n \in {"Sql_Database"} |-> << Payloads.content >>]] }

ConcurrentInit ==
    /\ cc_frames \in { [self |-> [model |-> TRUE, store |-> st],
                        calls |-> [c \in Calls |-> NewFrame]] : st \in CcStores }
    /\ FnIdle /\ TcIdle
    /\ RunIdle
    /\ ChatIdle
    /\ FmtIdle
    /\ PromptIdle
    /\ SearchIdle

OthersUnchanged ==
    /\ UNCHANGED <<fnVars, tcVars>>
    /\ UNCHANGED <<runVars, chatVars, fmtVars, promptVars, searchVars>>

\* lines 95-109
CcEnter(c) ==
    /\ Frame(c).pc = "idle"
    /\ \E req \in CcRequirements(c) :
         LET clipped == Clip(req, REQUIREMENT_LIMIT)
             found == search_relevant_code(cc_frames.self.model, cc_frames.self.store,
                                           "PL/SQL " \o clipped, 1)
         IN  cc_frames' = [cc_frames EXCEPT !.calls[c] =
                 [Frame(c) EXCEPT !.pc = "agents",
                                  !.requirement = req,
                                  !.code_requirements = clipped,
                                  !.related_examples = found.ret]]
    /\ OthersUnchanged

\* lines 111-136
CcMakeAgents(c) ==
    /\ Frame(c).pc = "agents"
    /\ \E constructed \in BOOLEAN :
         cc_frames' = [cc_frames EXCEPT !.calls[c] =
             [Frame(c) EXCEPT !.pc = IF constructed THEN "generate" ELSE "raised"]]
    /\ OthersUnchanged

\* lines 139-145, 164-168
CcGenerate(c) ==
    /\ Frame(c).pc = "generate"
    /\ \E o \in CcStageOutcomes(c, "GENERATE") :
         LET e == Effect(o)
             requirements == [type |-> "PL/SQL",
                              description |-> Frame(c).code_requirements]
         IN  cc_frames' = [cc_frames EXCEPT !.calls[c] =
                 [Frame(c) EXCEPT
                      !.task1 = IF e.built
                                THEN _code_gen_task_fn(requirements, Frame(c).related_examples)
                                ELSE @,
                      !.gen_result_str = e.text,
                      !.pc = NextPc("GENERATE", e.ok),
                      !.ret = IF e.ok THEN @ ELSE RunCrewErrorMsg]]
    /\ OthersUnchanged

\* lines 147-153, 164-168
CcReview(c) ==
    /\ Frame(c).pc = "review"
    /\ \E o \in CcStageOutcomes(c, "REVIEW") :
         LET e == Effect(o)
         IN  cc_frames' = [cc_frames EXCEPT !.calls[c] =
                 [Frame(c) EXCEPT
                      !.task2 = IF e.built
                                THEN _review_task_fn(Frame(c).gen_result_str)
                                ELSE @,
                      !.review_result_str = e.text,
                      !.pc = NextPc("REVIEW", e.ok),
                      !.ret = IF e.ok THEN @ ELSE RunCrewErrorMsg]]
    /\ OthersUnchanged

\* lines 155-168
CcImprove(c) ==
    /\ Frame(c).pc = "improve"
    /\ \E o \in CcStageOutcomes(c, "IMPROVE") :
         LET e == Effect(o)
         IN  cc_frames' = [cc_frames EXCEPT !.calls[c] =
                 [Frame(c) EXCEPT
                      !.task3 = IF e.built
                                THEN _improvement_task_fn(Frame(c).review_result_str,
                                                          Frame(c).gen_result_str)
                                ELSE @,
                      !.final_result_str = e.text,
                      !.pc = NextPc("IMPROVE", e.ok),
                      !.ret = IF e.ok THEN _format_final_result(e.text)
                              ELSE RunCrewErrorMsg]]
    /\ OthersUnchanged

ConcurrentNext ==
    \E c \in Calls :
        \/ CcEnter(c)
        \/ CcMakeAgents(c)
        \/ CcGenerate(c)
        \/ CcReview(c)
        \/ CcImprove(c)

SpecConcurrent == ConcurrentInit /\ [][ConcurrentNext]_vars

\* the texts a call holds: its locals and what its prompts embed
TextsOf(f) ==
    { f.requirement, f.code_requirements, f.gen_result_str,
      f.review_result_str, f.final_result_str, f.ret }
    \cup (IF f.task1 = NoTask THEN {} ELSE { f.task1.description })
    \cup (IF f.task2 = NoTask THEN {} ELSE { f.task2.code_output })
    \cup (IF f.task3 = NoTask THEN {} ELSE { f.task3.review_notes, f.task3.original_code })

\* C24: no run's state is visible to another concurrent run: whatever the
\* interleaving of two run_crew calls on one CodeGenerator, each call's
\* prompts and return value come from its own requirement, its own
\* retrieval result and the backend's answers to it, and never hold a text
\* of the other call.
C24_RunsIsolated ==
    \A c \in Calls :
        LET f == cc_frames.calls[c]
        IN  /\ \A d \in Calls \ {c} : \A t \in TextsOf(f) : ~In(Mark(d), t)
            /\ f.pc # "idle" =>
                   /\ In(Mark(c), f.code_requirements)
                   /\ IsPrefix(SubSeq(f.code_requirements, 1, Len(f.code_requirements) - 3),
                               f.requirement) \/ f.code_requirements = f.requirement
            /\ f.task1 # NoTask => f.task1.description = f.code_requirements
            /\ f.task2 # NoTask =>
                   IsPrefix(SubSeq(f.task2.code_output, 1, Len(f.task2.code_output) - 3),
                            f.gen_result_str)
            /\ f.task3 # NoTask =>
                   /\ IsPrefix(SubSeq(f.task3.review_notes, 1, Len(f.task3.review_notes) - 3),
                               f.review_result_str)
                   /\ IsPrefix(SubSeq(f.task3.original_code, 1, Len(f.task3.original_code) - 3),
                               f.gen_result_str)
            /\ f.pc = "done" => EndsWith(f.ret, f.final_result_str)
            /\ f.pc = "failed" => f.ret = RunCrewErrorMsg

\* both calls are past GENERATE with different outputs, the second call's
\* REVIEW prompt built after the first call's
C24_Witness ==
    /\ cc_frames.calls[1].pc = "done"
    /\ cc_frames.calls[2].pc = "improve"
    /\ In(Mark(1), cc_frames.calls[1].ret)
    /\ In(Mark(1), cc_frames.calls[1].task3.original_code)
    /\ In(Mark(2), cc_frames.calls[2].task2.code_output)
    /\ cc_frames.calls[1].gen_result_str # cc_frames.calls[2].gen_result_str

-----------------------------------------------------------------------------
(* Specification SpecTestCases: two /generate-test-cases requests in       *)
(* flight, each running app.generate_test_cases and, inside it,            *)
(* FlexcubeTestCaseGenerator.generate_flexcube_test_cases.  tc_req holds,  *)
(* per request, the locals of the two frames; tc_file the files of the     *)
(* temporary directory.                                                    *)

Requests == {1, 2}

\* FlexcubeTestCaseGenerator.semantic_search(query, top_k=5): the default
DEFAULT_TOP_K == 5

\* app.py lines 119-120: the path is the same for every request
output_path(r) == "<tempdir>/test_cases.xlsx"

\* what _parse_test_scenarios makes of the k-th case of request r: the four
\* fields, each the text matched or its default
ParsedScenario(r, k) ==
    [key \in {"Test Case ID", "Test Type", "Test Scenario", "Test Case Description"} |->
        CASE key = "Test Case ID" -> "TC_00" \o Digit(k)
          [] key = "Test Type" -> IF k = 1 THEN "Positive" ELSE "Unspecified"
          [] key = "Test Scenario" -> Mark(r) \o " scenario " \o Digit(k)
          [] OTHER -> IF k = 1 THEN Mark(r) \o " description" ELSE "No description"]

\* what generate_test_scenarios returns for request r: the scenarios
\* parsed from the backend's answer, none when the backend call failed
ScenarioLists(r) ==
    { [k \in 1..n |-> ParsedScenario(r, k)] : n \in 0..MaxScenarios }

\* the stores a retrieval of a request may meet
TcStores ==
    { [up |-> TRUE, catalog |-> Range(names), failing |-> failing,
       points |-> [n \in Range(names) |->
                     Hits(n, << [score |-> 90, kind |-> "text"] >>)]] :
        names \in { << "Flexcube_user_guide_14.x", "Flexcube_Userguide_12.x", "fn_tables2" >> },
        failing \in { {}, {"Flexcube_Userguide_12.x"} } }

\* lines 231-249 and _parse_steps_and_result: the backend's answer parsed,
\* or the fixed texts of the except clause
StepsOutcomes(r, k) ==
    { [ok |-> TRUE,
       steps |-> "1. open the screen for " \o Mark(r) \o " scenario " \o Digit(k),
       expected |-> "record saved"],
      [ok |-> FALSE,
       steps |-> "Error generating steps",
       expected |-> "Error generating expected result"] }

\* lines 318-324: the five keys of a test case
test_case(scenario, steps_and_result) ==
    [key \in {"Test Case ID", "Test Scenario", "Test Case Description",
              "Test Steps", "Expected Result"} |->
        CASE key = "Test Steps" -> steps_and_result.steps
          [] key = "Expected Result" -> steps_and_result.expected
          [] OTHER -> scenario[key]]

NewRequest ==
    [ pc |-> "idle", test_scenarios |-> <<>>, test_cases |-> <<>>,
      exc |-> "none", response |-> [status |-> 0, body |-> <<>>] ]

TestCasesInit ==
    /\ tc_req = [r \in Requests |-> NewRequest]
    /\ tc_file = <<>>
    /\ FnIdle /\ CcIdle
    /\ RunIdle
    /\ ChatIdle
    /\ FmtIdle
    /\ PromptIdle
    /\ SearchIdle

TcOthersUnchanged ==
    /\ UNCHANGED <<fnVars, cc_frames>>
    /\ UNCHANGED <<runVars, chatVars, fmtVars, promptVars, searchVars>>

\* app.py 112-123 and generate_flexcube_test_cases line 307
TcScenarios(r) ==
    /\ tc_req[r].pc = "idle"
    /\ \E scenarios \in ScenarioLists(r) :
         tc_req' = [tc_req EXCEPT ![r] =
             [@ EXCEPT !.test_scenarios = scenarios,
                       !.pc = IF scenarios = <<>> THEN "save" ELSE "steps"]]
    /\ UNCHANGED tc_file
    /\ TcOthersUnchanged

\* one turn of the loop of lines 311-326: generate_test_steps retrieves
\* (line 204, outside the try), then asks the backend (inside the try); an
\* exception of the retrieval leaves generate_flexcube_test_cases and is
\* answered by the handler with status 500
TcSteps(r) ==
    /\ tc_req[r].pc = "steps"
    /\ LET f == tc_req[r]
           k == Len(f.test_cases) + 1
           scenario == f.test_scenarios[k]
       IN  \E st \in TcStores, o \in StepsOutcomes(r, k) :
             LET contexts == semantic_search(st,
                                 << "Flexcube_user_guide_14.x", "Flexcube_Userguide_12.x", "fn_tables2" >>,
                                 DEFAULT_TOP_K)
             IN  tc_req' = [tc_req EXCEPT ![r] =
                     IF contexts.raised
                     THEN [f EXCEPT !.exc = "retrieval",
                                    !.pc = "responded",
                                    !.response = [status |-> 500, body |-> <<>>]]
                     ELSE [f EXCEPT !.test_cases = Append(@, test_case(scenario, o)),
                                    !.pc = IF k = Len(f.test_scenarios)
                                           THEN "save" ELSE "steps"]]
    /\ UNCHANGED tc_file
    /\ TcOthersUnchanged

\* save_test_cases, lines 336-375: the file at output_path is written, or
\* the error of the write is raised again
TcSave(r) ==
    /\ tc_req[r].pc = "save"
    /\ \E written \in BOOLEAN :
         IF written
         THEN /\ tc_file' = [path \in DOMAIN tc_file \cup {output_path(r)} |->
                                IF path = output_path(r) THEN tc_req[r].test_cases
                                ELSE tc_file[path]]
              /\ tc_req' = [tc_req EXCEPT ![r].pc = "send"]
         ELSE /\ tc_file' = tc_file
              /\ tc_req' = [tc_req EXCEPT ![r] =
                     [@ EXCEPT !.exc = "save", !.pc = "responded",
                               !.response = [status |-> 500, body |-> <<>>]]]
    /\ TcOthersUnchanged

\* app.py 125-130: send_file(output_path) reads the file that is there now
TcSend(r) ==
    /\ tc_req[r].pc = "send"
    /\ tc_req' = [tc_req EXCEPT ![r] =
           [@ EXCEPT !.pc = "responded",
                     !.response = [status |-> 200, body |-> tc_file[output_path(r)]]]]
    /\ UNCHANGED tc_file
    /\ TcOthersUnchanged

TestCasesNext ==
    \E r \in Requests :
        \/ TcScenarios(r)
        \/ TcSteps(r)
        \/ TcSave(r)
        \/ TcSend(r)

SpecTestCases == TestCasesInit /\ [][TestCasesNext]_vars

\* C25: every test-case record generate_flexcube_test_cases returns carries
\* the six fields of the structured record: identifier, type, scenario,
\* description, steps and expected result.
C25_SixFields ==
    \A r \in Requests :
        \A k \in 1..Len(tc_req[r].test_cases) :
            DOMAIN tc_req[r].test_cases[k] =
                {"Test Case ID", "Test Type", "Test Scenario",
                 "Test Case Description", "Test Steps", "Expected Result"}

\* what the records do carry: five fields, the type left out
FiveFieldsNoType ==
    \A r \in Requests :
        \A k \in 1..Len(tc_req[r].test_cases) :
            DOMAIN tc_req[r].test_cases[k] =
                {"Test Case ID", "Test Scenario", "Test Case Description",
                 "Test Steps", "Expected Result"}

\* C26: generate_flexcube_test_cases produces exactly one test case per
\* parsed scenario, in scenario order, also when the backend call or the
\* retrieval fails for a scenario (that scenario gets degraded steps and
\* expected result, the others are still processed); no such failure is
\* raised to the caller.
C26_OnePerScenarioNoRaise ==
    \A r \in Requests :
        LET f == tc_req[r]
        IN  /\ f.exc # "retrieval"
            /\ f.pc \in {"save", "send"} =>
                   /\ Len(f.test_cases) = Len(f.test_scenarios)
                   /\ \A k \in 1..Len(f.test_cases) :
                          f.test_cases[k]["Test Scenario"] =
                              f.test_scenarios[k]["Test Scenario"]

\* what holds when the backend call alone fails
BackendFailureDegrades ==
    \A r \in Requests :
        LET f == tc_req[r]
        IN  (f.pc \in {"save", "send"} \/ f.exc = "save" \/ f.response.status = 200) =>
                /\ Len(f.test_cases) = Len(f.test_scenarios)
                /\ \A k \in 1..Len(f.test_cases) :
                       f.test_cases[k]["Test Case ID"] = f.test_scenarios[k]["Test Case ID"]

\* C29: the spreadsheet sent back to a request holds exactly the test
\* cases generated from that request's own input, whatever the
\* interleaving of two requests.
C29_OwnSpreadsheet ==
    \A r \in Requests :
        tc_req[r].response.status = 200 =>
            tc_req[r].response.body = tc_req[r].test_cases

====
